---- MODULE Spec2Model ----
(***************************************************************************)
(* A model of the caption studio: the subtitle codec (srt_writer.py,       *)
(* srt_parser.py), the text normalizer and the lyric aligner               *)
(* (lyric_sync.py) and the caption editor's timeline (ui/editor.py).       *)
(*                                                                         *)
(* Conventions.                                                            *)
(*   - A Python str is a sequence of one-character strings.                *)
(*   - A time (float seconds, rounded to 3 decimals at every place the     *)
(*     editor stores one) is an integer number of milliseconds.            *)
(*   - A scene coordinate (float pixels) is an integer number of           *)
(*     milli-pixels, so that seconds * pixels_per_second is ms * 120.      *)
(*   - A similarity ratio 2*M/T is the pair <<2*M, T>>; the threshold is a *)
(*     number of hundredths.                                               *)
(*   - Python indices stay 0-based (lyric_idx, best_idx, rows).            *)
(***************************************************************************)
EXTENDS Integers, Sequences, FiniteSets, TLC

VARIABLES
    \* ---- CaptionEditorWindow / TimelineView / CaptionBlock (ui/editor.py)
    segments,          \* self.segments: sequence of [id, start, end, text]
    selected_segment,  \* self.selected_segment: an id, or None
    active_segment,    \* self._active_segment: an id, None, or Stale (an object that
                       \* is no longer in self.segments)
    highlighted,       \* the id of the block whose _active flag is set, or None
    position,          \* media_player.position(), ms
    blocks,            \* TimelineView._blocks: id -> [x, w] (milli-pixels)
    drag,              \* the pressed block: [id, drag_mode, orig_x, orig_w], or NoDrag
    rows,              \* caption_list rows: the [start, end, text] each row shows
    current_row,       \* caption_list.currentRow(), -1 if none
    caption_overlay,   \* caption_overlay.text()
    dialog,            \* title of the QMessageBox that is open, "" if none is
    \* ---- one run of sync_segments_to_lyrics (subtitles/lyric_sync.py)
    sync_in,           \* [segments, lyrics_lines, min_similarity]: the arguments
    seg_pos,           \* how many segments the for loop has taken
    lyric_idx,         \* the cursor
    synced,            \* the output list
    sync_log,          \* history: per appended output [seg, before, chosen, after]
    sync_pc,           \* "loop", "returned", "raised", or "idle"
    \* ---- one write_srt / parse_srt_file round (subtitles/srt_*.py)
    codec_in,          \* the segment list handed to write_srt
    codec_doc,         \* the text written
    codec_out,         \* what parse_srt_file gives: [ok, segments, token]
    codec_pc,          \* "start", "written", "parsed", or "idle"
    \* ---- calls of one pure helper (_normalize, _escape_ass_text, _parse_ffmpeg_progress)
    fn_in,             \* the argument of the first call
    fn_out,            \* the values returned so far, in call order
    fn_pc,             \* "start", "called", "again", or "idle"
    \* ---- one run of export_captioned_video from Popen on (ui/editor.py)
    export_pc,         \* where the handler is: "start", "poll", "events", "progress",
                       \* "communicate", "done", or "idle"
    child,             \* the ffmpeg process: [state, pending, pipe, returncode]
    clicked,           \* the user's click on Cancel: "no", or the child's state then
    canceled,          \* progress.wasCanceled()
    output_file,       \* output_video_path: "none", "partial" or "complete"
    report             \* title of the message box the handler ends with, "" if none yet

editorVars == <<segments, selected_segment, active_segment, highlighted, position,
                blocks, drag, rows, current_row, caption_overlay, dialog>>
syncVars == <<sync_in, seg_pos, lyric_idx, synced, sync_log, sync_pc>>
codecVars == <<codec_in, codec_doc, codec_out, codec_pc>>
fnVars == <<fn_in, fn_out, fn_pc>>
exportVars == <<export_pc, child, clicked, canceled, output_file, report>>
vars == <<editorVars, syncVars, codecVars, fnVars, exportVars>>

\* Segment handles are the numbers 1, 2, ...; None is Python's None, and Stale a
\* segment object that is not in self.segments
None == 0
Stale == -1

\* CaptionBlock.drag_mode is None
NoDrag == [id |-> 0, drag_mode |-> "None", orig_x |-> 0, orig_w |-> 0]

NoSyncRun == [segments |-> <<>>, lyrics_lines |-> <<>>, min_similarity |-> 0]

(***************************************************************************)
(* Characters and str methods                                              *)
(***************************************************************************)
Whitespace == {" ", "\t", "\n"}
UpperChars == <<"A", "B", "C", "D", "E", "F", "G", "H", "I", "J", "K", "L", "M",
                "N", "O", "P", "Q", "R", "S", "T", "U", "V", "W", "X", "Y", "Z">>
LowerChars == <<"a", "b", "c", "d", "e", "f", "g", "h", "i", "j", "k", "l", "m",
                "n", "o", "p", "q", "r", "s", "t", "u", "v", "w", "x", "y", "z">>
UpperCase == {UpperChars[i] : i \in 1..26}
LowerCase == {LowerChars[i] : i \in 1..26}
DigitChars == <<"0", "1", "2", "3", "4", "5", "6", "7", "8", "9">>
DigitSet == {DigitChars[i] : i \in 1..10}

\* \w of a str pattern: letters, digits and the underscore
IsWord(c) == c \in UpperCase \cup LowerCase \cup DigitSet \cup {"_"}

\* \s
IsSpace(c) == c \in Whitespace

\* str.lower(), one character
LowerChar(c) ==
    IF c \in UpperCase THEN LowerChars[CHOOSE i \in 1..26 : UpperChars[i] = c] ELSE c

Lower(s) == [i \in 1..Len(s) |-> LowerChar(s[i])]

RECURSIVE LStrip(_)
LStrip(s) ==
    IF s = <<>> THEN s
    ELSE IF IsSpace(Head(s)) THEN LStrip(Tail(s)) ELSE s

RECURSIVE RStrip(_)
RStrip(s) ==
    IF s = <<>> THEN s
    ELSE IF IsSpace(s[Len(s)]) THEN RStrip(SubSeq(s, 1, Len(s) - 1)) ELSE s

\* str.strip()
Strip(s) == RStrip(LStrip(s))

\* "\n".join(parts), " ".join(parts)
RECURSIVE Join(_, _)
Join(sep, parts) ==
    IF parts = <<>> THEN <<>>
    ELSE IF Len(parts) = 1 THEN parts[1]
    ELSE parts[1] \o sep \o Join(sep, Tail(parts))

MinOf(S) == CHOOSE x \in S : \A y \in S : x <= y
MaxOf(S) == CHOOSE x \in S : \A y \in S : y <= x

\* str.splitlines(), from index start: the pieces between "\n", no empty piece after
\* a final "\n"
RECURSIVE SplitLinesFrom(_, _)
SplitLinesFrom(s, start) ==
    IF start > Len(s) THEN <<>>
    ELSE LET breaks == {i \in start..Len(s) : s[i] = "\n"}
         IN  IF breaks = {} THEN <<SubSeq(s, start, Len(s))>>
             ELSE <<SubSeq(s, start, MinOf(breaks) - 1)>> \o SplitLinesFrom(s, MinOf(breaks) + 1)

SplitLines(s) == SplitLinesFrom(s, 1)

\* whether pat occurs in s at index i (1-based)
OccursAt(s, pat, i) ==
    /\ i + Len(pat) - 1 <= Len(s)
    /\ \A k \in 1..Len(pat) : s[i + k - 1] = pat[k]

\* pat in s
Contains(s, pat) == \E i \in 1..Len(s) : OccursAt(s, pat, i)

NonBlank(line) == Strip(line) # <<>>

\* [line for line in lines if line.strip()]
RECURSIVE DropBlank(_)
DropBlank(ls) ==
    IF ls = <<>> THEN <<>>
    ELSE IF NonBlank(Head(ls)) THEN <<Head(ls)>> \o DropBlank(Tail(ls))
    ELSE DropBlank(Tail(ls))

(***************************************************************************)
(* lyric_sync.py                                                           *)
(***************************************************************************)
\* re.sub(r"[^\w\s]", " ", s)
PunctToSpace(s) == [i \in 1..Len(s) |-> IF IsWord(s[i]) \/ IsSpace(s[i]) THEN s[i] ELSE " "]

\* re.sub(r"\s+", " ", s)
RECURSIVE CollapseSpace(_)
CollapseSpace(s) ==
    IF s = <<>> THEN <<>>
    ELSE IF IsSpace(Head(s))
         THEN <<" ">> \o CollapseSpace(LStrip(s))
         ELSE <<Head(s)>> \o CollapseSpace(Tail(s))

\* a faulty variant of _normalize: no strip after the runs of whitespace are collapsed
NormalizeNoFinalStrip(text) == CollapseSpace(PunctToSpace(Strip(Lower(text))))

\* _normalize
Normalize(text) == Strip(CollapseSpace(PunctToSpace(Strip(Lower(text)))))

\* a faulty variant of parse_lyrics_lines: blank lines are kept
ParseLyricsKeepsBlank(raw_lyrics) ==
    LET lines == SplitLines(raw_lyrics)
    IN  [i \in 1..Len(lines) |-> Strip(lines[i])]

\* parse_lyrics_lines: the stripped non-blank lines; <<>> stands for the raise
ParseLyricsLines(raw_lyrics) ==
    LET lines == SplitLines(raw_lyrics)
        stripped == [i \in 1..Len(lines) |-> Strip(lines[i])]
    IN  DropBlank(stripped)

\* difflib: the length of the common run of a from i and b from j
RECURSIVE RunLen(_, _, _, _)
RunLen(a, b, i, j) ==
    IF i > Len(a) \/ j > Len(b) THEN 0
    ELSE IF a[i] # b[j] THEN 0
    ELSE 1 + RunLen(a, b, i + 1, j + 1)

\* difflib find_longest_match: <<i, j, k>> with k maximal, then i minimal, then j minimal
LongestMatch(a, b) ==
    LET pairs == (1..Len(a)) \X (1..Len(b))
        best == CHOOSE p \in pairs :
                    \A q \in pairs :
                        LET kp == RunLen(a, b, p[1], p[2])
                            kq == RunLen(a, b, q[1], q[2])
                        IN  \/ kp > kq
                            \/ kp = kq /\ p[1] < q[1]
                            \/ kp = kq /\ p[1] = q[1] /\ p[2] <= q[2]
    IN  <<best[1], best[2], RunLen(a, b, best[1], best[2])>>

\* difflib get_matching_blocks: the total size of the matching blocks
RECURSIVE MatchSize(_, _)
MatchSize(a, b) ==
    IF a = <<>> \/ b = <<>> THEN 0
    ELSE LET m == LongestMatch(a, b)
             i == m[1]
             j == m[2]
             k == m[3]
         IN  IF k = 0 THEN 0
             ELSE k + MatchSize(SubSeq(a, 1, i - 1), SubSeq(b, 1, j - 1))
                    + MatchSize(SubSeq(a, i + k, Len(a)), SubSeq(b, j + k, Len(b)))

\* SequenceMatcher(None, a, b).ratio() = 2*M/T as <<2*M, T>>; 1.0 when both are empty
Ratio(a, b) ==
    IF Len(a) + Len(b) = 0 THEN <<1, 1>>
    ELSE <<2 * MatchSize(a, b), Len(a) + Len(b)>>

\* score > best_score
ScoreGreater(s, t) == s[1] * t[2] > t[1] * s[2]

\* best_score < min_similarity (hundredths)
ScoreBelow(s, min_similarity) == 100 * s[1] < min_similarity * s[2]

\* the lookahead of the search: lyric_idx + 6
SearchWindow == 6

Min(a, b) == IF a < b THEN a ELSE b
Max(a, b) == IF a > b THEN a ELSE b

\* a faulty variant of SearchEnd: every line from the cursor on is scored
SearchEndUnbounded(lyrics_lines, cursor) == Len(lyrics_lines)

\* search_end = min(len(lyrics_lines), lyric_idx + 6)
SearchEnd(lyrics_lines, cursor) == Min(Len(lyrics_lines), cursor + SearchWindow)

\* the for loop over range(lyric_idx, search_end): [best_idx, best_score]
RECURSIVE SearchBest(_, _, _, _, _)
SearchBest(segment_norm, lyrics_lines, idx, search_end, best) ==
    IF idx >= search_end THEN best
    ELSE LET score == Ratio(segment_norm, Normalize(lyrics_lines[idx + 1]))
         IN  SearchBest(segment_norm, lyrics_lines, idx + 1, search_end,
                        IF ScoreGreater(score, best.best_score)
                        THEN [best_idx |-> idx, best_score |-> score]
                        ELSE best)

\* a faulty variant of CursorAfterMatch: the cursor is left on the matched line
CursorAfterMatchStays(best_idx) == best_idx

\* lyric_idx = best_idx + 1
CursorAfterMatch(best_idx) == best_idx + 1

\* lyric_idx += 1
CursorAfterFallback(cursor) == cursor + 1

\* a faulty variant of SyncedSegment: the normalized line is emitted
SyncedSegmentNormalized(segment, chosen_text) ==
    [start |-> segment.start, end |-> segment.end, text |-> Normalize(chosen_text)]

\* the triple appended for a consumed segment
SyncedSegment(segment, chosen_text) ==
    [start |-> segment.start, end |-> segment.end, text |-> chosen_text]

\* a faulty variant of Consume: the best-scoring line is taken whatever its score
ConsumeBestAlways(segment, segment_norm, lyrics_lines, cursor, min_similarity) ==
    LET best == SearchBest(segment_norm, lyrics_lines, cursor,
                           SearchEnd(lyrics_lines, cursor),
                           [best_idx |-> cursor, best_score |-> <<-1, 1>>])
    IN  [chosen |-> best.best_idx,
         cursor |-> CursorAfterMatch(best.best_idx),
         out |-> SyncedSegment(segment, lyrics_lines[best.best_idx + 1])]

\* One pass of the loop body for a segment whose normalized text is not empty:
\* [chosen, cursor, out]
Consume(segment, segment_norm, lyrics_lines, cursor, min_similarity) ==
    LET best == SearchBest(segment_norm, lyrics_lines, cursor,
                           SearchEnd(lyrics_lines, cursor),
                           [best_idx |-> cursor, best_score |-> <<-1, 1>>])
    IN  IF ScoreBelow(best.best_score, min_similarity)
        THEN [chosen |-> cursor,
              cursor |-> CursorAfterFallback(cursor),
              out |-> SyncedSegment(segment, lyrics_lines[cursor + 1])]
        ELSE [chosen |-> best.best_idx,
              cursor |-> CursorAfterMatch(best.best_idx),
              out |-> SyncedSegment(segment, lyrics_lines[best.best_idx + 1])]

\* the segment is skipped: "if not segment_norm: continue"
Skipped(segment) == Normalize(segment.text) = <<>>

\* sync_segments_to_lyrics as a whole: the loop from segment number pos + 1 on
RECURSIVE SyncLoop(_, _, _, _, _, _)
SyncLoop(segs, lyrics_lines, min_similarity, pos, cursor, out) ==
    IF pos >= Len(segs) \/ cursor >= Len(lyrics_lines) THEN out
    ELSE LET segment == segs[pos + 1]
         IN  IF Skipped(segment)
             THEN SyncLoop(segs, lyrics_lines, min_similarity, pos + 1, cursor, out)
             ELSE LET c == Consume(segment, Normalize(segment.text), lyrics_lines,
                                   cursor, min_similarity)
                  IN  SyncLoop(segs, lyrics_lines, min_similarity, pos + 1,
                               c.cursor, Append(out, c.out))

\* the list returned; <<>> stands for the raise of "produced no aligned segments"
SyncSegmentsToLyrics(segs, lyrics_lines, min_similarity) ==
    SyncLoop(segs, lyrics_lines, min_similarity, 0, 0, <<>>)

(***************************************************************************)
(* srt_writer.py                                                           *)
(***************************************************************************)
\* str(n), n >= 0
RECURSIVE IntToStr(_)
IntToStr(n) ==
    IF n < 10 THEN <<DigitChars[n + 1]>>
    ELSE Append(IntToStr(n \div 10), DigitChars[(n % 10) + 1])

\* f"{n:0w}": at least w digits, zero-padded
RECURSIVE ZeroPad(_, _)
ZeroPad(digits, width) ==
    IF Len(digits) >= width THEN digits ELSE ZeroPad(<<"0">> \o digits, width)

Fmt(n, width) == ZeroPad(IntToStr(n), width)

\* round(x) of the float x = whole + tenths/10, 0 <= tenths <= 9: to the nearest
\* integer, a half to the even one
RoundHalfEven(whole, tenths) ==
    IF tenths < 5 THEN whole
    ELSE IF tenths > 5 THEN whole + 1
    ELSE IF whole % 2 = 0 THEN whole ELSE whole + 1

\* _to_srt_time(seconds) with seconds * 1000 = ms + tenths/10
ToSrtTime(ms, tenths) ==
    LET milliseconds == RoundHalfEven(ms, tenths)
        hours == milliseconds \div 3600000
        rem1 == milliseconds % 3600000
        minutes == rem1 \div 60000
        rem2 == rem1 % 60000
        secs == rem2 \div 1000
        millis == rem2 % 1000
    IN  Fmt(hours, 2) \o <<":">> \o Fmt(minutes, 2) \o <<":">> \o Fmt(secs, 2)
            \o <<",">> \o Fmt(millis, 3)

Arrow == <<"-", "-", ">">>

\* the four lines write_srt emits for the segment numbered index
SrtBlockLines(index, segment) ==
    << IntToStr(index),
       ToSrtTime(segment.start, 0) \o <<" ">> \o Arrow \o <<" ">> \o ToSrtTime(segment.end, 0),
       segment.text,
       <<>> >>

RECURSIVE SrtLines(_, _)
SrtLines(segs, index) ==
    IF segs = <<>> THEN <<>>
    ELSE SrtBlockLines(index, Head(segs)) \o SrtLines(Tail(segs), index + 1)

\* write_srt: the text written to output_path
WriteSrt(segs) == Join(<<"\n">>, SrtLines(segs, 1))

(***************************************************************************)
(* srt_parser.py                                                           *)
(***************************************************************************)
IsDigit(c) == c \in DigitSet

DigitValue(c) == (CHOOSE i \in 1..10 : DigitChars[i] = c) - 1

\* int() of a string of digits
RECURSIVE StrToInt(_)
StrToInt(digits) ==
    IF digits = <<>> THEN 0
    ELSE 10 * StrToInt(SubSeq(digits, 1, Len(digits) - 1)) + DigitValue(digits[Len(digits)])

\* _TIME_RE.fullmatch: \d{2}:\d{2}:\d{2},\d{3}
TimeReFullMatch(t) ==
    /\ Len(t) = 12
    /\ \A i \in {1, 2, 4, 5, 7, 8, 10, 11, 12} : IsDigit(t[i])
    /\ t[3] = ":" /\ t[6] = ":" /\ t[9] = ","

\* _to_seconds: [ok, ms, token]; ok = FALSE is the ValueError naming the timestamp
ToSeconds(timestamp) ==
    LET t == Strip(timestamp)
    IN  IF ~TimeReFullMatch(t) THEN [ok |-> FALSE, ms |-> 0, token |-> timestamp]
        ELSE [ok |-> TRUE,
              ms |-> StrToInt(SubSeq(t, 1, 2)) * 3600000 + StrToInt(SubSeq(t, 4, 5)) * 60000
                     + StrToInt(SubSeq(t, 7, 8)) * 1000 + StrToInt(SubSeq(t, 10, 12)),
              token |-> <<>>]

\* the end of the whitespace run that starts at index i
RECURSIVE SpaceRunEnd(_, _)
SpaceRunEnd(s, i) ==
    IF i > Len(s) THEN i - 1
    ELSE IF IsSpace(s[i]) THEN SpaceRunEnd(s, i + 1) ELSE i - 1

\* the last index of the match of \n\s*\n that starts at index i, 0 if none does
BlankLineMatchEnd(s, i) ==
    IF s[i] # "\n" THEN 0
    ELSE LET ends == {j \in (i + 1)..SpaceRunEnd(s, i + 1) : s[j] = "\n"}
         IN  IF ends = {} THEN 0 ELSE MaxOf(ends)

\* re.split(r"\n\s*\n", text), from the piece that starts at index start
RECURSIVE ReSplitFrom(_, _)
ReSplitFrom(s, start) ==
    LET found == {i \in start..Len(s) : BlankLineMatchEnd(s, i) > 0}
    IN  IF found = {} THEN <<SubSeq(s, start, Len(s))>>
        ELSE <<SubSeq(s, start, MinOf(found) - 1)>>
                 \o ReSplitFrom(s, BlankLineMatchEnd(s, MinOf(found)) + 1)

RECURSIVE StripNonBlank(_)
StripNonBlank(parts) ==
    IF parts = <<>> THEN <<>>
    ELSE IF NonBlank(Head(parts)) THEN <<Strip(Head(parts))>> \o StripNonBlank(Tail(parts))
    ELSE StripNonBlank(Tail(parts))

\* blocks = [block.strip() for block in re.split(...) if block.strip()]
SrtBlocks(text) == StripNonBlank(ReSplitFrom(text, 1))

\* lines = [line.rstrip() for line in block.splitlines() if line.strip()]
BlockLines(block) ==
    LET kept == DropBlank(SplitLines(block))
    IN  [i \in 1..Len(kept) |-> RStrip(kept[i])]

\* line.split("-->", maxsplit=1), each part stripped; the line contains "-->"
SplitArrow(line) ==
    LET at == CHOOSE i \in 1..Len(line) :
                  OccursAt(line, Arrow, i) /\ \A k \in 1..(i - 1) : ~OccursAt(line, Arrow, k)
    IN  <<Strip(SubSeq(line, 1, at - 1)), Strip(SubSeq(line, at + 3, Len(line)))>>

\* caption_text = " ".join(lines[2:]).strip()
CaptionText(lines) == Strip(Join(<<" ">>, SubSeq(lines, 3, Len(lines))))

\* a faulty variant of BlockYields: a block with empty text is not passed over
BlockYieldsEmptyText(lines) ==
    /\ Len(lines) >= 2
    /\ Contains(lines[2], Arrow)

\* whether the loop body reaches segments.append for the block
BlockYields(lines) ==
    /\ Len(lines) >= 2
    /\ Contains(lines[2], Arrow)
    /\ CaptionText(lines) # <<>>

\* the loop of parse_srt_file over the blocks
RECURSIVE ParseBlocks(_, _)
ParseBlocks(blks, acc) ==
    IF blks = <<>> THEN [ok |-> TRUE, segments |-> acc, token |-> <<>>]
    ELSE LET lines == BlockLines(Head(blks))
         IN  IF ~BlockYields(lines) THEN ParseBlocks(Tail(blks), acc)
             ELSE LET raw == SplitArrow(lines[2])
                      start == ToSeconds(raw[1])
                      end == ToSeconds(raw[2])
                  IN  IF ~start.ok THEN [ok |-> FALSE, segments |-> <<>>, token |-> start.token]
                      ELSE IF ~end.ok THEN [ok |-> FALSE, segments |-> <<>>, token |-> end.token]
                      ELSE ParseBlocks(Tail(blks),
                               Append(acc, [start |-> start.ms, end |-> end.ms,
                                            text |-> CaptionText(lines)]))

\* parse_srt_file: [ok, segments, token]; ok = TRUE with the list of [start, end, text]
\* returned, ok = FALSE for the ValueError naming the token
ParseSrtFile(text) == ParseBlocks(SrtBlocks(text), <<>>)

(***************************************************************************)
(* ui/editor.py: the window's state as a record, and the methods as        *)
(* operators from state to state                                           *)
(***************************************************************************)
pixels_per_second == 120
MIN_WIDTH == 24
LEFT_HANDLE == 8
RIGHT_HANDLE == 8

\* milli-pixels of n pixels
Px(n) == 1000 * n

NewCaptionText == <<"N", "e", "w", " ", "c", "a", "p", "t", "i", "o", "n">>

EditorState ==
    [segments |-> segments, selected_segment |-> selected_segment,
     active_segment |-> active_segment, highlighted |-> highlighted,
     position |-> position, blocks |-> blocks, drag |-> drag, rows |-> rows,
     current_row |-> current_row, caption_overlay |-> caption_overlay, dialog |-> dialog]

SegmentIds(segs) == {segs[i].id : i \in 1..Len(segs)}

\* the segment object with handle id, which is in segs
SegmentOf(segs, id) == segs[CHOOSE i \in 1..Len(segs) : segs[i].id = id]

\* a handle no segment of segs has
FreshId(segs) == MinOf((1..(Len(segs) + 1)) \ SegmentIds(segs))

\* key=lambda seg: (seg.start, seg.end)
KeyLessEq(a, b) == a.start < b.start \/ (a.start = b.start /\ a.end <= b.end)

\* the place of seg in a sorted list, after every segment whose key is not greater
RECURSIVE InsertByKey(_, _)
InsertByKey(sorted, seg) ==
    IF sorted = <<>> THEN <<seg>>
    ELSE IF KeyLessEq(Head(sorted), seg) THEN <<Head(sorted)>> \o InsertByKey(Tail(sorted), seg)
    ELSE <<seg>> \o sorted

\* list.sort (stable) by the key
RECURSIVE SortedBy(_, _)
SortedBy(done, rest) ==
    IF rest = <<>> THEN done ELSE SortedBy(InsertByKey(done, Head(rest)), Tail(rest))

\* _sort_segments
SortSegments(segs) == SortedBy(<<>>, segs)

\* a faulty variant of _segment_index: by value (list.index), the first equal segment
SegmentIndexByValue(segs, segment) ==
    IF \E i \in 1..Len(segs) : segs[i].id = segment
    THEN LET own == SegmentOf(segs, segment)
         IN  MinOf({i \in 1..Len(segs) : /\ segs[i].start = own.start
                                         /\ segs[i].end = own.end
                                         /\ segs[i].text = own.text}) - 1
    ELSE -1

\* _segment_index: by identity, -1 if absent or None
SegmentIndex(segs, segment) ==
    IF \E i \in 1..Len(segs) : segs[i].id = segment
    THEN (CHOOSE i \in 1..Len(segs) : segs[i].id = segment) - 1
    ELSE -1

\* _segment_at_time: the first segment, in list order, with start <= seconds <= end
SegmentAtTime(segs, ms) ==
    LET hits == {i \in 1..Len(segs) : segs[i].start <= ms /\ ms <= segs[i].end}
    IN  IF hits = {} THEN None ELSE segs[MinOf(hits)].id

\* _format_time shows max(0, round(seconds * 1000)) milliseconds
FormatTime(ms) == Max(0, ms)

\* _caption_list_text: what a row shows of a segment
CaptionListText(segment) ==
    [start |-> FormatTime(segment.start), end |-> FormatTime(segment.end), text |-> segment.text]

\* CaptionBlock.duration
Duration(segment) == Max(100, segment.end - segment.start)

\* CaptionBlock.refresh_from_segment: the block's x and rect width
BlockOf(segment) ==
    [x |-> segment.start * pixels_per_second,
     w |-> Max(Px(MIN_WIDTH), Duration(segment) * pixels_per_second)]

\* TimelineView.load_segments: one new block per segment
LoadBlocks(segs) == [id \in SegmentIds(segs) |-> BlockOf(SegmentOf(segs, id))]

\* TimelineView.set_active_segment: the block whose segment is the argument is
\* active, every other block is not
SetActiveSegment(st, segment) ==
    [st EXCEPT !.highlighted = IF segment \in DOMAIN st.blocks THEN segment ELSE None]

\* "a or b" of two handles
Or(a, b) == IF a # None THEN a ELSE b

\* _update_caption_overlay
UpdateCaptionOverlay(st, ms) ==
    LET active == SegmentAtTime(st.segments, ms)
        st1 == [st EXCEPT !.active_segment = active]
        st2 == SetActiveSegment(st1, Or(active, st1.selected_segment))
    IN  [st2 EXCEPT !.caption_overlay =
            IF active = None THEN <<>> ELSE SegmentOf(st.segments, active).text]

\* _on_media_position_changed
OnMediaPositionChanged(st, ms) == UpdateCaptionOverlay([st EXCEPT !.position = ms], ms)

\* _select_segment; moved says whether media_player.setPosition made the player
\* report the new position before the call returned
SelectSegment(st, segment, seek, moved) ==
    LET idx == SegmentIndex(st.segments, segment)
        st1 == [st EXCEPT !.selected_segment = segment, !.current_row = idx]
        st2 == SetActiveSegment(st1, Or(st1.active_segment, segment))
    IN  IF idx < 0 THEN st
        ELSE IF seek /\ moved
             THEN OnMediaPositionChanged(st2, SegmentOf(st.segments, segment).start)
             ELSE st2

\* _refresh_timeline_and_list
RefreshTimelineAndList(st, preserve_selection) ==
    LET preserve == IF preserve_selection # None
                       /\ SegmentIndex(st.segments, preserve_selection) = -1
                    THEN None ELSE preserve_selection
        st1 == [st EXCEPT !.blocks = LoadBlocks(st.segments),
                          !.highlighted = None,
                          !.rows = [i \in 1..Len(st.segments) |-> CaptionListText(st.segments[i])],
                          !.current_row = -1]
    IN  IF preserve # None THEN SelectSegment(st1, preserve, FALSE, FALSE)
        ELSE IF st1.segments # <<>> THEN SelectSegment(st1, st1.segments[1].id, FALSE, FALSE)
        ELSE SetActiveSegment([st1 EXCEPT !.selected_segment = None], st1.active_segment)

\* on_segment_edited
OnSegmentEdited(st, segment) ==
    LET idx == SegmentIndex(st.segments, segment)
        st1 == IF idx >= 0 /\ idx < Len(st.rows)
               THEN [st EXCEPT !.rows[idx + 1] = CaptionListText(SegmentOf(st.segments, segment))]
               ELSE st
    IN  UpdateCaptionOverlay(st1, st1.position)

\* round(num / den) for num >= 0: to the nearest integer, a half to the even one
RoundDiv(num, den) ==
    LET q == num \div den
        r == num % den
    IN  IF 2 * r < den THEN q
        ELSE IF 2 * r > den THEN q + 1
        ELSE IF q % 2 = 0 THEN q ELSE q + 1

\* start = max(0.0, x / pps), rounded to 3 decimals
GeometryStart(x) == RoundDiv(Max(0, x), pixels_per_second)

\* end = start + max(0.1, width / pps), rounded to 3 decimals
GeometryEnd(x, w) == RoundDiv(Max(0, x) + Max(100 * pixels_per_second, w), pixels_per_second)

\* CaptionBlock._update_segment_from_geometry
UpdateSegmentFromGeometry(st, id) ==
    LET b == st.blocks[id]
        i == SegmentIndex(st.segments, id) + 1
        st1 == [st EXCEPT !.segments[i].start = GeometryStart(b.x),
                          !.segments[i].end = GeometryEnd(b.x, b.w)]
    IN  OnSegmentEdited(st1, id)

\* CaptionBlock._handle_at
HandleAt(pos_x, width) ==
    IF pos_x <= Px(LEFT_HANDLE) THEN "left"
    ELSE IF pos_x >= width - Px(RIGHT_HANDLE) THEN "right"
    ELSE "move"

\* the geometry mouseMoveEvent sets for a drag of delta: [x, w]
DragMove(d, b, delta) == [x |-> Max(0, d.orig_x + delta), w |-> b.w]

DragLeft(d, b, delta) ==
    LET width == d.orig_w - delta
    IN  IF width < Px(MIN_WIDTH)
        THEN [x |-> Max(0, d.orig_x + (d.orig_w - Px(MIN_WIDTH))), w |-> Px(MIN_WIDTH)]
        ELSE [x |-> Max(0, d.orig_x + delta), w |-> width]

\* a faulty variant of DragRight: the width is not held at MIN_WIDTH
DragRightUnclamped(d, b, delta) == [x |-> b.x, w |-> d.orig_w + delta]

DragRight(d, b, delta) == [x |-> b.x, w |-> Max(Px(MIN_WIDTH), d.orig_w + delta)]

DragGeometry(d, b, delta) ==
    CASE d.drag_mode = "move" -> DragMove(d, b, delta)
      [] d.drag_mode = "left" -> DragLeft(d, b, delta)
      [] d.drag_mode = "right" -> DragRight(d, b, delta)

\* CaptionBlock.mousePressEvent
MousePressEvent(st, id, pos_x, moved) ==
    LET b == st.blocks[id]
        st1 == [st EXCEPT !.drag = [id |-> id, drag_mode |-> HandleAt(pos_x, b.w),
                                    orig_x |-> b.x, orig_w |-> b.w]]
    IN  SelectSegment(st1, id, TRUE, moved)

\* CaptionBlock.mouseMoveEvent, drag_mode is not None
MouseMoveEvent(st, delta) ==
    LET id == st.drag.id
        st1 == [st EXCEPT !.blocks[id] = DragGeometry(st.drag, st.blocks[id], delta)]
    IN  UpdateSegmentFromGeometry(st1, id)

\* CaptionBlock.mouseReleaseEvent
MouseReleaseEvent(st) ==
    UpdateSegmentFromGeometry([st EXCEPT !.drag = NoDrag], st.drag.id)

\* CaptionBlock._commit_text: the label lost the focus holding text
CommitText(st, id, text) ==
    LET stripped == Strip(text)
        i == SegmentIndex(st.segments, id) + 1
    IN  IF stripped = <<>> THEN st
        ELSE OnSegmentEdited([st EXCEPT !.segments[i].text = stripped], id)

\* self.segments = parse_srt_file(...): new objects, so a handle kept from before
\* refers to none of them
WithIds(parsed) ==
    [i \in 1..Len(parsed) |->
        [id |-> i, start |-> parsed[i].start, end |-> parsed[i].end, text |-> parsed[i].text]]

Forget(handle) == IF handle = None THEN None ELSE Stale

\* open_srt / open_video / generate_captions_from_video from the assignment of
\* self.segments on
LoadSegments(st, parsed) ==
    LET st1 == [st EXCEPT !.segments = SortSegments(WithIds(parsed)),
                          !.active_segment = Forget(st.active_segment)]
    IN  RefreshTimelineAndList(st1, None)

\* save_srt (the file written is WriteSrt of the sorted list)
SaveSrt(st) ==
    LET st1 == [st EXCEPT !.segments = SortSegments(st.segments)]
    IN  [RefreshTimelineAndList(st1, st1.selected_segment) EXCEPT !.dialog = "Saved"]

\* a faulty variant of apply_selected_caption_edit: the fields are set before the
\* range and the text are checked
ApplyEditMutatesFirst(st, start, end, raw_text) ==
    LET text == Strip(raw_text)
        i == SegmentIndex(st.segments, st.selected_segment) + 1
        st1 == [st EXCEPT !.segments[i].start = start,
                          !.segments[i].end = end,
                          !.segments[i].text = text]
        st2 == [st1 EXCEPT !.segments = SortSegments(st1.segments)]
    IN  IF st.selected_segment = None THEN [st EXCEPT !.dialog = "No Selection"]
        ELSE IF end <= start THEN [st1 EXCEPT !.dialog = "Invalid Range"]
        ELSE IF text = <<>> THEN [st1 EXCEPT !.dialog = "Empty Text"]
        ELSE RefreshTimelineAndList(st2, st2.selected_segment)

\* apply_selected_caption_edit; start, end are the spin boxes' values, raw_text the
\* text box's
ApplySelectedCaptionEdit(st, start, end, raw_text) ==
    LET text == Strip(raw_text)
        i == SegmentIndex(st.segments, st.selected_segment) + 1
        st1 == [st EXCEPT !.segments[i].start = start,
                          !.segments[i].end = end,
                          !.segments[i].text = text]
        st2 == [st1 EXCEPT !.segments = SortSegments(st1.segments)]
    IN  IF st.selected_segment = None THEN [st EXCEPT !.dialog = "No Selection"]
        ELSE IF end <= start THEN [st EXCEPT !.dialog = "Invalid Range"]
        ELSE IF text = <<>> THEN [st EXCEPT !.dialog = "Empty Text"]
        ELSE RefreshTimelineAndList(st2, st2.selected_segment)

\* the duration of a caption added at the playhead: playhead + 2.0
NewCaptionDuration == 2000

\* add_caption_at_playhead
AddCaptionAtPlayhead(st) ==
    LET playhead == Max(0, st.position)
        new_segment == [id |-> FreshId(st.segments), start |-> playhead,
                        end |-> playhead + NewCaptionDuration, text |-> NewCaptionText]
        st1 == [st EXCEPT !.segments = SortSegments(Append(st.segments, new_segment))]
    IN  RefreshTimelineAndList(st1, new_segment.id)

\* list.pop(idx), idx 0-based
Pop(segs, idx) == SubSeq(segs, 1, idx) \o SubSeq(segs, idx + 2, Len(segs))

\* a faulty variant of delete_selected_caption: the first segment is selected afterwards
DeleteSelectsFirst(st) ==
    LET idx == SegmentIndex(st.segments, st.selected_segment)
        left == Pop(st.segments, idx)
        preserve == IF left # <<>> THEN left[1].id ELSE None
        st1 == [st EXCEPT !.segments = left,
                          !.selected_segment = None,
                          !.active_segment = IF st.active_segment = st.selected_segment
                                             THEN Stale ELSE st.active_segment]
    IN  IF st.selected_segment = None THEN [st EXCEPT !.dialog = "No Selection"]
        ELSE IF idx < 0 THEN st
        ELSE RefreshTimelineAndList(st1, preserve)

\* delete_selected_caption
DeleteSelectedCaption(st) ==
    LET idx == SegmentIndex(st.segments, st.selected_segment)
        left == Pop(st.segments, idx)
        preserve == IF left # <<>> THEN left[Min(idx, Len(left) - 1) + 1].id ELSE None
        st1 == [st EXCEPT !.segments = left,
                          !.selected_segment = None,
                          !.active_segment = IF st.active_segment = st.selected_segment
                                             THEN Stale ELSE st.active_segment]
    IN  IF st.selected_segment = None THEN [st EXCEPT !.dialog = "No Selection"]
        ELSE IF idx < 0 THEN st
        ELSE RefreshTimelineAndList(st1, preserve)

\* _write_current_subtitle_file (the file written is the encoding of the sorted list)
WriteCurrentSubtitleFile(st) == [st EXCEPT !.segments = SortSegments(st.segments)]

\* "for idx, synced in enumerate(synced_segments): self.segments[idx].text = synced.text"
ReplaceTexts(segs, out) ==
    [i \in 1..Len(segs) |-> IF i <= Len(out) THEN [segs[i] EXCEPT !.text = out[i].text]
                            ELSE segs[i]]

\* sync_lyrics_to_segments
SyncLyricsToSegments(st, raw_lyrics, similarity) ==
    LET lyrics_lines == ParseLyricsLines(raw_lyrics)
        synced_segments == SyncSegmentsToLyrics(st.segments, lyrics_lines, similarity)
        st1 == [st EXCEPT !.segments = ReplaceTexts(st.segments, synced_segments)]
    IN  IF st.segments = <<>> THEN [st EXCEPT !.dialog = "No Captions"]
        ELSE IF lyrics_lines = <<>> \/ synced_segments = <<>>
             THEN [st EXCEPT !.dialog = "Lyrics Sync"]
        ELSE [RefreshTimelineAndList(st1, st1.selected_segment) EXCEPT !.dialog = "Lyrics Synced"]

\* _on_caption_row_changed, not while _syncing_ui
OnCaptionRowChanged(st, row, moved) ==
    IF row < 0 \/ row >= Len(st.segments)
    THEN [st EXCEPT !.selected_segment = None]
    ELSE SelectSegment(st, st.segments[row + 1].id, TRUE, moved)

(***************************************************************************)
(* Values of the variables of a component that a specification leaves out  *)
(***************************************************************************)
EditorIdle ==
    /\ segments = <<>> /\ selected_segment = None /\ active_segment = None
    /\ highlighted = None /\ position = 0 /\ blocks = <<>> /\ drag = NoDrag
    /\ rows = <<>> /\ current_row = -1 /\ caption_overlay = <<>> /\ dialog = ""

SyncIdle ==
    /\ sync_in = NoSyncRun /\ seg_pos = 0 /\ lyric_idx = 0 /\ synced = <<>>
    /\ sync_log = <<>> /\ sync_pc = "idle"

CodecIdle ==
    /\ codec_in = <<>> /\ codec_doc = <<>> /\ codec_out = <<>> /\ codec_pc = "idle"

FnIdle ==
    /\ fn_in = <<>> /\ fn_out = <<>> /\ fn_pc = "idle"

NoChild == [state |-> "none", pending |-> 0, pipe |-> 0, returncode |-> 0]

ExportIdle ==
    /\ export_pc = "idle" /\ child = NoChild /\ clicked = "no" /\ canceled = FALSE
    /\ output_file = "none" /\ report = ""

(***************************************************************************)
(* SpecSync: one run of sync_segments_to_lyrics, one loop pass per step    *)
(***************************************************************************)
MaxSyncSegs == 3
MaxSyncLines == 3

SyncTexts == {<<"a", "b">>, <<"b">>, <<"!">>}
SyncLineTexts == {<<"A", "b">>, <<"b", "c", "c">>, <<"c">>}
SyncThresholds == {25, 50}

\* reference lists longer than the lookahead: the only matching line outside the
\* first window, and a matching line that is the last of the first window
SyncLongLines ==
    { <<<<"c">>, <<"c">>, <<"c">>, <<"c">>, <<"c">>, <<"c">>, <<"b">>>>,
      <<<<"c">>, <<"c">>, <<"c">>, <<"c">>, <<"c">>, <<"b">>, <<"b">>>> }

\* the k-th transcribed segment: [1000*(k-1), 1000*k] ms
SyncSegmentsOf(texts) ==
    [k \in 1..Len(texts) |-> [start |-> 1000 * (k - 1), end |-> 1000 * k, text |-> texts[k]]]

SeqsUpTo(S, n) == UNION {[1..m -> S] : m \in 0..n}

SyncInit ==
    /\ sync_in \in {[segments |-> SyncSegmentsOf(ts), lyrics_lines |-> ls, min_similarity |-> m] :
                        ts \in SeqsUpTo(SyncTexts, MaxSyncSegs),
                        ls \in SeqsUpTo(SyncLineTexts, MaxSyncLines) \cup SyncLongLines,
                        m \in SyncThresholds}
    /\ seg_pos = 0
    /\ lyric_idx = 0
    /\ synced = <<>>
    /\ sync_log = <<>>
    /\ sync_pc = "loop"
    /\ EditorIdle /\ CodecIdle /\ FnIdle /\ ExportIdle

\* the loop is left: no segment remains, or "if lyric_idx >= len(lyrics_lines): break";
\* then "if not synced: raise", else return
SyncFinish ==
    /\ sync_pc = "loop"
    /\ \/ seg_pos >= Len(sync_in.segments)
       \/ lyric_idx >= Len(sync_in.lyrics_lines)
    /\ sync_pc' = IF synced = <<>> THEN "raised" ELSE "returned"
    /\ UNCHANGED <<sync_in, seg_pos, lyric_idx, synced, sync_log, editorVars, codecVars, fnVars, exportVars>>

\* "if not segment_norm: continue"
SyncSkip ==
    /\ sync_pc = "loop"
    /\ seg_pos < Len(sync_in.segments)
    /\ lyric_idx < Len(sync_in.lyrics_lines)
    /\ Skipped(sync_in.segments[seg_pos + 1])
    /\ seg_pos' = seg_pos + 1
    /\ UNCHANGED <<sync_in, lyric_idx, synced, sync_log, sync_pc, editorVars, codecVars, fnVars, exportVars>>

\* the rest of the loop body: search, choose, advance the cursor, append
SyncConsume ==
    /\ sync_pc = "loop"
    /\ seg_pos < Len(sync_in.segments)
    /\ lyric_idx < Len(sync_in.lyrics_lines)
    /\ ~Skipped(sync_in.segments[seg_pos + 1])
    /\ LET segment == sync_in.segments[seg_pos + 1]
           c == Consume(segment, Normalize(segment.text), sync_in.lyrics_lines,
                        lyric_idx, sync_in.min_similarity)
       IN  /\ lyric_idx' = c.cursor
           /\ synced' = Append(synced, c.out)
           /\ sync_log' = Append(sync_log, [seg |-> seg_pos, before |-> lyric_idx,
                                            chosen |-> c.chosen, after |-> c.cursor])
    /\ seg_pos' = seg_pos + 1
    /\ UNCHANGED <<sync_in, sync_pc, editorVars, codecVars, fnVars, exportVars>>

SyncNext == SyncFinish \/ SyncSkip \/ SyncConsume

SpecSync == SyncInit /\ [][SyncNext]_vars

(***************************************************************************)
(* Properties of one run of sync_segments_to_lyrics (SpecSync)             *)
(***************************************************************************)
\* C4: the cursor never decreases, it grows by at least 1 with every output
\* appended, and the line indices given to successive outputs strictly increase
C4_CursorMonotonic ==
    /\ [][/\ lyric_idx' >= lyric_idx
          /\ Len(synced') > Len(synced) => lyric_idx' >= lyric_idx + 1]_vars
    /\ [](\A i, j \in 1..Len(sync_log) :
              i < j => sync_log[i].chosen < sync_log[j].chosen)

\* a run that consumed two segments, one of them by a match ahead of the cursor
C4_Witness ==
    /\ Len(sync_log) >= 2
    /\ \E i \in 1..Len(sync_log) : sync_log[i].chosen > sync_log[i].before

\* the 0-based positions of the input segments whose normalized text is not empty
NonEmptyPositions(segs) ==
    SelectSeq([i \in 1..Len(segs) |-> i - 1], LAMBDA p : Normalize(segs[p + 1].text) # <<>>)

\* C5: the output holds, in input order, one triple per consumed segment, with the
\* segment's own start and end and the raw text of a reference line; it is no
\* longer than either input; a segment with empty normalized text is passed over
\* with the cursor and the output unchanged; a segment is dropped only once the
\* cursor is at the end of the reference list
C5_OutputShape ==
    /\ [](LET segs == sync_in.segments
              lines == sync_in.lyrics_lines
              kept == NonEmptyPositions(segs)
          IN  /\ Len(synced) <= Min(Len(segs), Len(lines))
              /\ Len(synced) <= Len(kept)
              /\ \A i \in 1..Len(synced) :
                     /\ synced[i].start = segs[kept[i] + 1].start
                     /\ synced[i].end = segs[kept[i] + 1].end
                     /\ \E k \in 1..Len(lines) : synced[i].text = lines[k]
              /\ sync_pc \in {"returned", "raised"} /\ Len(synced) < Len(kept)
                     => lyric_idx >= Len(lines))
    /\ [][/\ seg_pos' = seg_pos + 1
          /\ Normalize(sync_in.segments[seg_pos + 1].text) = <<>>
          => lyric_idx' = lyric_idx /\ synced' = synced]_vars

\* a finished run that skipped a segment, consumed one and dropped one
C5_Witness ==
    /\ sync_pc = "returned"
    /\ Len(synced) >= 1
    /\ Len(synced) < Len(NonEmptyPositions(sync_in.segments))
    /\ \E i \in 1..Len(sync_in.segments) :
           /\ Normalize(sync_in.segments[i].text) = <<>>
           /\ i - 1 < sync_log[1].seg

\* the scores of segment number seg against the lines of the window that starts at
\* cursor, and the first index of the window with the highest score
WindowOf(cursor) == cursor..(SearchEnd(sync_in.lyrics_lines, cursor) - 1)

ScoreOf(seg, idx) ==
    Ratio(Normalize(sync_in.segments[seg + 1].text), Normalize(sync_in.lyrics_lines[idx + 1]))

AtLeast(s, t) == s[1] * t[2] >= t[1] * s[2]

WindowBest(seg, cursor) ==
    CHOOSE i \in WindowOf(cursor) :
        \A j \in WindowOf(cursor) :
            /\ AtLeast(ScoreOf(seg, i), ScoreOf(seg, j))
            /\ j < i => ~AtLeast(ScoreOf(seg, j), ScoreOf(seg, i))

\* the best score of the window is strictly below the threshold
FellBack(entry) ==
    LET s == ScoreOf(entry.seg, WindowBest(entry.seg, entry.before))
    IN  100 * s[1] < sync_in.min_similarity * s[2]

\* C8: below the threshold the line at the cursor is assigned and the cursor grows
\* by exactly 1; otherwise the best-scoring line is assigned and the cursor is set
\* to its index + 1; if every consumed segment fell back, the k-th consumed segment
\* has line k
C8_FallbackRule ==
    /\ \A i \in 1..Len(sync_log) :
           LET e == sync_log[i]
               best == WindowBest(e.seg, e.before)
           IN  /\ synced[i].text = sync_in.lyrics_lines[e.chosen + 1]
               /\ IF FellBack(e)
                  THEN e.chosen = e.before /\ e.after = e.before + 1
                  ELSE e.chosen = best /\ e.after = best + 1
    /\ (\A i \in 1..Len(sync_log) : FellBack(sync_log[i]))
           => \A i \in 1..Len(sync_log) : sync_log[i].chosen = i - 1

\* two segments fell back, one of them although another line of its window scored
\* best
C8_Witness ==
    /\ Len(sync_log) >= 2
    /\ \A i \in 1..Len(sync_log) : FellBack(sync_log[i])
    /\ \E i \in 1..Len(sync_log) :
           WindowBest(sync_log[i].seg, sync_log[i].before) # sync_log[i].before

(***************************************************************************)
(* Spec: the editor window, one handler per step                           *)
(***************************************************************************)
MaxSegs == 2
MaxTime == 2000

Seg(start, end, text) == [start |-> start, end |-> end, text |-> text]

\* the subtitle files the user can open: written by write_srt, and one that is empty
SrtFiles ==
    { WriteSrt(<<Seg(1000, 2000, <<"b">>), Seg(0, 2000, <<"!">>)>>),
      WriteSrt(<<Seg(0, 1000, <<"b">>), Seg(0, 1000, <<"b">>)>>),
      WriteSrt(<<Seg(2000, 1000, <<"b">>)>>),
      <<>> }

\* what parse_srt_file returns for the files it does not raise on
LoadableLists == {ParseSrtFile(f).segments : f \in {g \in SrtFiles : ParseSrtFile(g).ok}}

\* scenePos().x() - drag_origin.x() of a mouse move, pixels
DragDeltas == {-120, 120}

\* event.pos().x() of a press on a block of width w: here the user presses the
\* middle of a block (the handles are pressed in SpecDrag)
PressPoints(w) == {w \div 2}

\* the positions the player reports, ms
Positions == {0, 1000}

\* what the user leaves in the form before Apply
EditStarts == {0, 2000}
EditEnds == {1000}
EditTexts == {<<" ">>, <<"b">>}

\* what the user leaves in a block's label
LabelTexts == {<<" ">>, <<"!">>}

\* the lyrics box and the similarity spin box (hundredths, default 0.25)
LyricsInputs == {<<" ">>, <<"b">>}
Similarities == {25}

ExportOutcomes == {"FFmpeg Subtitle Filter Missing", "Export Complete"}
GenerateFailures == {"Caption Generation Failed"}

EmptyWindow ==
    [segments |-> <<>>, selected_segment |-> None, active_segment |-> None,
     highlighted |-> None, position |-> 0, blocks |-> <<>>, drag |-> NoDrag, rows |-> <<>>,
     current_row |-> -1, caption_overlay |-> <<>>, dialog |-> ""]

\* CaptionEditorWindow.__init__ with the list parsed from srt_path ([] if no file)
Constructed(parsed) ==
    LET st1 == [EmptyWindow EXCEPT !.segments = SortSegments(WithIds(parsed))]
    IN  UpdateCaptionOverlay(RefreshTimelineAndList(st1, None), 0)

IsState(st) ==
    /\ segments = st.segments
    /\ selected_segment = st.selected_segment
    /\ active_segment = st.active_segment
    /\ highlighted = st.highlighted
    /\ position = st.position
    /\ blocks = st.blocks
    /\ drag = st.drag
    /\ rows = st.rows
    /\ current_row = st.current_row
    /\ caption_overlay = st.caption_overlay
    /\ dialog = st.dialog

Becomes(st) ==
    /\ segments' = st.segments
    /\ selected_segment' = st.selected_segment
    /\ active_segment' = st.active_segment
    /\ highlighted' = st.highlighted
    /\ position' = st.position
    /\ blocks' = st.blocks
    /\ drag' = st.drag
    /\ rows' = st.rows
    /\ current_row' = st.current_row
    /\ caption_overlay' = st.caption_overlay
    /\ dialog' = st.dialog
    /\ UNCHANGED <<syncVars, codecVars, fnVars, exportVars>>

\* the state a handler starts from
Start == EditorState

\* a handler runs when no message box is open (the boxes are modal)
Ready == dialog = ""

\* and one that is not a mouse event of a drag, when no drag is under way
Idle == Ready /\ drag = NoDrag

\* the model's bound on the times on the timeline
WithinMaxTime(st) == \A i \in 1..Len(st.segments) : st.segments[i].end <= MaxTime

Init ==
    /\ \E parsed \in LoadableLists : IsState(Constructed(parsed))
    /\ SyncIdle /\ CodecIdle /\ FnIdle /\ ExportIdle

OpenSrt ==
    /\ Idle
    /\ \E parsed \in LoadableLists : Becomes(LoadSegments(Start, parsed))

OpenVideo ==
    /\ Idle
    /\ \E parsed \in LoadableLists : Becomes(LoadSegments(Start, parsed))

GenerateCaptions ==
    /\ Idle
    /\ \/ \E title \in GenerateFailures : Becomes([Start EXCEPT !.dialog = title])
       \/ \E parsed \in LoadableLists :
              Becomes([LoadSegments(Start, parsed) EXCEPT !.dialog = "Captions Ready"])

SaveSrtClicked ==
    /\ Idle
    /\ Becomes(SaveSrt(Start))

MousePress ==
    /\ Idle
    /\ \E id \in DOMAIN blocks :
           \E pos_x \in PressPoints(blocks[id].w), moved \in BOOLEAN :
               Becomes(MousePressEvent(Start, id, pos_x, moved))

MouseMove ==
    /\ Ready /\ drag # NoDrag
    /\ \E delta \in DragDeltas :
           LET st == MouseMoveEvent(Start, Px(delta))
           IN  WithinMaxTime(st) /\ Becomes(st)

MouseRelease ==
    /\ Ready /\ drag # NoDrag
    /\ Becomes(MouseReleaseEvent(Start))

LabelFocusOut ==
    /\ Idle
    /\ \E id \in DOMAIN blocks, text \in LabelTexts : Becomes(CommitText(Start, id, text))

PositionChanged ==
    \E ms \in Positions :
        /\ Ready
        /\ ms # position
        /\ Becomes(OnMediaPositionChanged(Start, ms))

CaptionRowChanged ==
    /\ Idle
    /\ \E row \in 0..(Len(rows) - 1), moved \in BOOLEAN :
           /\ row # current_row
           /\ Becomes(OnCaptionRowChanged(Start, row, moved))

ApplyEdit ==
    /\ Idle
    /\ \E start \in EditStarts, end \in EditEnds, raw_text \in EditTexts :
           Becomes(ApplySelectedCaptionEdit(Start, start, end, raw_text))

AddCaption ==
    /\ Idle
    /\ Len(segments) < MaxSegs
    /\ LET st == AddCaptionAtPlayhead(Start)
       IN  WithinMaxTime(st) /\ Becomes(st)

DeleteCaption ==
    /\ Idle
    /\ Becomes(DeleteSelectedCaption(Start))

SyncLyrics ==
    /\ Idle
    /\ \E raw_lyrics \in LyricsInputs, similarity \in Similarities :
           Becomes(SyncLyricsToSegments(Start, raw_lyrics, similarity))

\* export_captioned_video: the subtitle file is written unless ffmpeg is missing;
\* the transcode ends one way or another
ExportCaptionedVideo ==
    /\ Idle
    /\ \E title \in ExportOutcomes :
           Becomes([(IF title = "FFmpeg Subtitle Filter Missing" THEN Start
                     ELSE WriteCurrentSubtitleFile(Start)) EXCEPT !.dialog = title])

\* the user closes the message box
DismissDialog ==
    /\ dialog # ""
    /\ Becomes([EditorState EXCEPT !.dialog = ""])

Next ==
    \/ DismissDialog
    \/ OpenSrt \/ OpenVideo \/ GenerateCaptions \/ SaveSrtClicked
    \/ MousePress \/ MouseMove \/ MouseRelease \/ LabelFocusOut
    \/ PositionChanged \/ CaptionRowChanged
    \/ ApplyEdit \/ AddCaption \/ DeleteCaption \/ SyncLyrics \/ ExportCaptionedVideo

Spec == Init /\ [][Next]_vars

(***************************************************************************)
(* SpecCodec: write_srt of a segment list, then parse_srt_file of the text *)
(***************************************************************************)
MaxCodecSegs == 2

CodecTimes == {<<0, 1500>>, <<1500, 3723004>>}
CodecTexts == {<<"a">>, <<"a", " ", "b">>, <<"a", "\n", "b">>}

CodecSegments == {Seg(t[1], t[2], text) : t \in CodecTimes, text \in CodecTexts}

CodecInit ==
    /\ codec_in \in SeqsUpTo(CodecSegments, MaxCodecSegs)
    /\ codec_doc = <<>>
    /\ codec_out = [ok |-> TRUE, segments |-> <<>>, token |-> <<>>]
    /\ codec_pc = "start"
    /\ EditorIdle /\ SyncIdle /\ FnIdle /\ ExportIdle

CodecWrite ==
    /\ codec_pc = "start"
    /\ codec_doc' = WriteSrt(codec_in)
    /\ codec_pc' = "written"
    /\ UNCHANGED <<codec_in, codec_out, editorVars, syncVars, fnVars, exportVars>>

CodecParse ==
    /\ codec_pc = "written"
    /\ codec_out' = ParseSrtFile(codec_doc)
    /\ codec_pc' = "parsed"
    /\ UNCHANGED <<codec_in, codec_doc, editorVars, syncVars, fnVars, exportVars>>

CodecNext == CodecWrite \/ CodecParse

SpecCodec == CodecInit /\ [][CodecNext]_vars

\* C3: for segments with end > start and non-empty text, parse_srt_file(write_srt(x))
\* has the length and order of x, and each segment its text, start and end (times
\* are whole milliseconds here, so rounding to 3 decimals changes nothing)
C3_RoundTrip ==
    (/\ codec_pc = "parsed"
     /\ \A i \in 1..Len(codec_in) : codec_in[i].end > codec_in[i].start /\ codec_in[i].text # <<>>)
    => /\ codec_out.ok
       /\ Len(codec_out.segments) = Len(codec_in)
       /\ \A i \in 1..Len(codec_in) : codec_out.segments[i] = codec_in[i]

(***************************************************************************)
(* SpecDrag: one gesture on the block of a freshly loaded caption          *)
(***************************************************************************)
DragStarts == {0, 500, 1000}
DragDurations == {100, 200, 300, 1000}

\* the captions a gesture starts from
DragOriginals == {<<Seg(s, s + d, <<"b">>)>> : s \in DragStarts, d \in DragDurations}

\* event.pos().x() of the press: the left edge, the middle, the right edge
HandlePoints(w) == {0, w \div 2, w}

\* scenePos().x() - drag_origin.x() of a mouse move, whole pixels
GestureDeltas == {-200, -97, -25, -1, 1, 12, 25, 97, 200}

DragInit ==
    /\ \E parsed \in DragOriginals : IsState(Constructed(parsed))
    /\ SyncIdle /\ CodecIdle /\ FnIdle /\ ExportIdle

\* the caption is as loaded: no gesture has changed it
Untouched == \E parsed \in DragOriginals : segments = WithIds(parsed)

PressHandle ==
    /\ Idle /\ Untouched
    /\ \E id \in DOMAIN blocks :
           \E pos_x \in HandlePoints(blocks[id].w), moved \in BOOLEAN :
               Becomes(MousePressEvent(Start, id, pos_x, moved))

GestureMove ==
    /\ Ready /\ drag # NoDrag
    /\ \E delta \in GestureDeltas : Becomes(MouseMoveEvent(Start, Px(delta)))

DragNext == PressHandle \/ GestureMove \/ MouseRelease

SpecDrag == DragInit /\ [][DragNext]_vars

\* the width a resize by delta (milli-pixels) asks for
AskedWidth(d, delta) == IF d.drag_mode = "left" THEN d.orig_w - delta ELSE d.orig_w + delta

\* MIN_WIDTH / pixels_per_second, in ms
MinDuration == RoundDiv(Px(MIN_WIDTH), pixels_per_second)

DurationOf(segs, id) == SegmentOf(segs, id).end - SegmentOf(segs, id).start

\* C10: a mouse move of a left or right resize leaves the segment no shorter than
\* MIN_WIDTH / pixels_per_second, and exactly that long when the move asks for a
\* width below MIN_WIDTH
C10_ResizeClamp ==
    [][\A delta \in GestureDeltas :
           (/\ dialog = ""
            /\ drag.drag_mode \in {"left", "right"}
            /\ EditorState' = MouseMoveEvent(EditorState, Px(delta)))
           => /\ DurationOf(segments', drag.id) >= MinDuration
              /\ AskedWidth(drag, Px(delta)) < Px(MIN_WIDTH)
                     => DurationOf(segments', drag.id) = MinDuration]_vars

\* a left resize of a block wider than MIN_WIDTH that was held at MIN_WIDTH
C10_Witness ==
    /\ drag.drag_mode = "left"
    /\ drag.orig_w > Px(MIN_WIDTH)
    /\ blocks[drag.id].w = Px(MIN_WIDTH)
    /\ blocks[drag.id].x = drag.orig_x + drag.orig_w - Px(MIN_WIDTH)
    /\ DurationOf(segments, drag.id) = MinDuration

(***************************************************************************)
(* Properties of the editor window (Spec)                                  *)
(***************************************************************************)
IsSorted(segs) == \A i \in 1..(Len(segs) - 1) : KeyLessEq(segs[i], segs[i + 1])

\* C1: with no drag under way the collection is non-decreasing in (start, end)
C1_SortedAfterMutations == drag = NoDrag => IsSorted(segments)

\* C2: every segment of the collection has end > start
C2_EndAfterStart == \A i \in 1..Len(segments) : segments[i].end > segments[i].start

\* the segments of the collection whose [start, end] contains ms
Containing(ms) == {i \in 1..Len(segments) : segments[i].start <= ms /\ ms <= segments[i].end}

\* the playback times probed: every quarter of a second up to MaxTime
ProbeTimes == {250 * k : k \in 0..(MaxTime \div 250)}

\* C9: with no drag under way and for every time t, what _segment_at_time finds in
\* the collection is a segment containing t whose (start, end) is the least among
\* those containing t, and nothing if none contains t
C9_ActiveIsFirstInSortOrder ==
    drag = NoDrag =>
        \A ms \in ProbeTimes :
            LET active == SegmentAtTime(segments, ms)
            IN  IF Containing(ms) = {} THEN active = None
                ELSE /\ active \in {segments[i].id : i \in Containing(ms)}
                     /\ \A i \in Containing(ms) : KeyLessEq(SegmentOf(segments, active), segments[i])

\* the segments of segs other than the one with handle id
Others(segs, id) == {segs[i] : i \in {k \in 1..Len(segs) : segs[k].id # id}}

\* C6: in every state in which Apply can be clicked with a segment selected, and for
\* every content of the form: with end <= start or with text empty after trimming
\* the handler opens a warning and leaves the collection and the selection as they
\* were; otherwise the selected segment gets the three values, every other segment
\* is kept, the collection is sorted, and the segment stays selected, its row the
\* current one
C6_ApplyEdit ==
    (Idle /\ selected_segment # None) =>
        \A start \in EditStarts, end \in EditEnds, raw_text \in EditTexts :
            LET after == ApplySelectedCaptionEdit(EditorState, start, end, raw_text)
            IN  IF end <= start \/ \A k \in 1..Len(raw_text) : IsSpace(raw_text[k])
                THEN /\ after.segments = segments
                     /\ after.selected_segment = selected_segment
                     /\ after.dialog \in {"Invalid Range", "Empty Text"}
                ELSE /\ after.dialog = ""
                     /\ after.selected_segment = selected_segment
                     /\ SegmentOf(after.segments, selected_segment) =
                            [id |-> selected_segment, start |-> start, end |-> end,
                             text |-> Strip(raw_text)]
                     /\ Len(after.segments) = Len(segments)
                     /\ Others(after.segments, selected_segment) =
                            Others(segments, selected_segment)
                     /\ IsSorted(after.segments)
                     /\ after.current_row = SegmentIndex(after.segments, selected_segment)

\* an edit with end <= start was refused
C6_Witness == dialog = "Invalid Range" /\ selected_segment # None /\ Len(segments) = MaxSegs

\* C7: in every state in which Sync can be clicked on a non-empty collection: with
\* lyrics that hold no non-blank line, or with no segment whose normalized text is
\* non-empty, the handler opens the "Lyrics Sync" warning and leaves the collection
\* as it was
C7_SyncErrorLeavesSegments ==
    (Idle /\ segments # <<>>) =>
        \A raw_lyrics \in LyricsInputs, similarity \in Similarities :
            (\/ \A k \in 1..Len(raw_lyrics) : IsSpace(raw_lyrics[k])
             \/ \A i \in 1..Len(segments) : Normalize(segments[i].text) = <<>>)
            => LET after == SyncLyricsToSegments(EditorState, raw_lyrics, similarity)
               IN  after.dialog = "Lyrics Sync" /\ after.segments = segments

\* the sync was refused for a collection none of whose texts has a letter or digit
C7_Witness ==
    /\ dialog = "Lyrics Sync"
    /\ segments # <<>>
    /\ \A i \in 1..Len(segments) : Normalize(segments[i].text) = <<>>

(***************************************************************************)
(* SpecDecode: parse_srt_file of a subtitle file made of given blocks      *)
(***************************************************************************)
MaxDecodeBlocks == 2

GoodStamp == ToSrtTime(1000, 0)

\* "00:00:01,00": the last digit is missing
ShortStamp == SubSeq(GoodStamp, 1, 11)

\* "100:00:00,000": three hour digits
LongStamp == ToSrtTime(360000000, 0)

TimeLine(start, end) == start \o <<" ">> \o Arrow \o <<" ">> \o end

\* The blocks a file is made of: the lines of the block, and the start or end
\* field of its second line that does not have the form DD:DD:DD,DDD (the first
\* one, <<>> if none)
DecodeBlocks ==
    { [lines |-> <<<<"1">>, TimeLine(GoodStamp, GoodStamp), <<"a">>>>, bad |-> <<>>],
      [lines |-> <<<<"1">>, TimeLine(ShortStamp, GoodStamp), <<"a">>>>, bad |-> ShortStamp],
      [lines |-> <<<<"1">>, TimeLine(GoodStamp, <<"x">>), <<"a">>>>, bad |-> <<"x">>],
      [lines |-> <<<<"1">>, TimeLine(LongStamp, GoodStamp), <<"a">>>>, bad |-> LongStamp],
      [lines |-> <<<<"1">>, TimeLine(<<"y">>, GoodStamp)>>, bad |-> <<"y">>],
      [lines |-> <<<<"1">>, <<"a">>>>, bad |-> <<>>],
      [lines |-> <<<<"a">>>>, bad |-> <<>>],
      [lines |-> <<<<"2">>, TimeLine(GoodStamp, GoodStamp), <<"b">>, <<"c">>>>, bad |-> <<>>],
      [lines |-> <<TimeLine(GoodStamp, GoodStamp), <<"a">>>>, bad |-> <<>>],
      [lines |-> <<<<"1">>, <<"a">>, TimeLine(GoodStamp, GoodStamp)>>, bad |-> <<>>] }

\* the file: the lines of a block on lines of their own, a blank line between blocks
DocumentOf(blks) ==
    Join(<<"\n", "\n">>, [i \in 1..Len(blks) |-> Join(<<"\n">>, blks[i].lines)])

DecodeInit ==
    /\ codec_in \in SeqsUpTo(DecodeBlocks, MaxDecodeBlocks)
    /\ codec_doc = <<>>
    /\ codec_out = [ok |-> TRUE, segments |-> <<>>, token |-> <<>>]
    /\ codec_pc = "start"
    /\ EditorIdle /\ SyncIdle /\ FnIdle /\ ExportIdle

\* the file is there to be read
DecodeCompose ==
    /\ codec_pc = "start"
    /\ codec_doc' = DocumentOf(codec_in)
    /\ codec_pc' = "written"
    /\ UNCHANGED <<codec_in, codec_out, editorVars, syncVars, fnVars, exportVars>>

DecodeNext == DecodeCompose \/ CodecParse

SpecDecode == DecodeInit /\ [][DecodeNext]_vars

\* the blocks of the file that have a malformed start or end field
Malformed == {i \in 1..Len(codec_in) : codec_in[i].bad # <<>>}

\* C11: if a block of the file has a second line with "-->" and a start or end
\* field that is not DD:DD:DD,DDD, the decode fails, names that field (of the
\* first such block) and returns no segment
C11_MalformedTimestampFails ==
    (codec_pc = "parsed" /\ Malformed # {})
    => /\ ~codec_out.ok
       /\ codec_out.token = codec_in[MinOf(Malformed)].bad
       /\ codec_out.segments = <<>>

(***************************************************************************)
(* Properties of the text write_srt writes (SpecCodec)                     *)
(***************************************************************************)
\* the pieces of s between the line breaks, empty ones included
RECURSIVE PiecesFrom(_, _)
PiecesFrom(s, start) ==
    LET breaks == {i \in start..Len(s) : s[i] = "\n"}
    IN  IF breaks = {} THEN <<SubSeq(s, start, Len(s))>>
        ELSE <<SubSeq(s, start, MinOf(breaks) - 1)>> \o PiecesFrom(s, MinOf(breaks) + 1)

\* the four lines of the block of segment number i: the index, the time line, the
\* text, a blank line
BlockOfFour(i, segment) ==
    << IntToStr(i),
       ToSrtTime(segment.start, 0) \o <<" ", "-", "-", ">", " ">> \o ToSrtTime(segment.end, 0),
       segment.text,
       <<>> >>

RECURSIVE BlocksOfFour(_, _)
BlocksOfFour(segs, i) ==
    IF i > Len(segs) THEN <<>> ELSE BlockOfFour(i, segs[i]) \o BlocksOfFour(segs, i + 1)

\* C12: the text written for a non-empty list is, line by line, the four lines of
\* block 1, of block 2, ...: the index, the time line, the text on one line, a
\* blank line; the last blank line is the empty piece after the final line break
C12_FourLinesPerSegment ==
    (codec_pc \in {"written", "parsed"} /\ codec_in # <<>>)
    => PiecesFrom(codec_doc, 1) = BlocksOfFour(codec_in, 1)

(***************************************************************************)
(* SpecNorm: _normalize called on a string, then on its own result         *)
(***************************************************************************)
MaxNormLen == 4

\* one character of each class: upper and lower case letter, digit, underscore,
\* punctuation, space, tab, line break
NormChars == {"A", "b", "1", "_", "!", " ", "\t", "\n"}

NormInit ==
    /\ fn_in \in SeqsUpTo(NormChars, MaxNormLen)
    /\ fn_out = <<>>
    /\ fn_pc = "start"
    /\ EditorIdle /\ SyncIdle /\ CodecIdle /\ ExportIdle

\* _normalize(x)
NormalizeCall ==
    /\ fn_pc = "start"
    /\ fn_out' = <<Normalize(fn_in)>>
    /\ fn_pc' = "called"
    /\ UNCHANGED <<fn_in, editorVars, syncVars, codecVars, exportVars>>

\* _normalize(_normalize(x))
NormalizeAgain ==
    /\ fn_pc = "called"
    /\ fn_out' = Append(fn_out, Normalize(fn_out[1]))
    /\ fn_pc' = "again"
    /\ UNCHANGED <<fn_in, editorVars, syncVars, codecVars, exportVars>>

NormNext == NormalizeCall \/ NormalizeAgain

SpecNorm == NormInit /\ [][NormNext]_vars

\* C13: normalising an already normalised string changes nothing:
\* _normalize(_normalize(x)) = _normalize(x) for every string x of letters of both
\* cases, digits, underscore, punctuation, spaces, tabs and line breaks.
C13_NormalizeIdempotent ==
    fn_pc = "again" => fn_out[2] = fn_out[1]

\* the second call has returned for an input that the first call changed at its end
\* (punctuation last) and inside (an upper case letter), and that is not emptied
C13_Witness ==
    /\ fn_pc = "again"
    /\ Len(fn_in) = MaxNormLen
    /\ fn_in[Len(fn_in)] = "!"
    /\ \E i \in 1..Len(fn_in) : fn_in[i] = "A"
    /\ fn_out[1] # <<>>
    /\ fn_out[1] # fn_in

(***************************************************************************)
(* C14: _segment_index                                                     *)
(***************************************************************************)
\* segments of the list that are equal in start, end and text to another one
Twins(segs) ==
    {i \in 1..Len(segs) : \E j \in 1..Len(segs) :
        /\ j # i
        /\ segs[j].start = segs[i].start /\ segs[j].end = segs[i].end
        /\ segs[j].text = segs[i].text}

\* C14: _segment_index gives the 0-based position of the very segment object it is
\* handed, and -1 for no handle or for a handle that is not in the collection; a
\* segment that has a twin equal in start, end and text resolves to its own position.
C14_SegmentIndexByIdentity ==
    /\ SegmentIndex(segments, None) = -1
    /\ SegmentIndex(segments, Stale) = -1
    /\ \A p \in 1..Len(segments) : SegmentIndex(segments, segments[p].id) = p - 1
    /\ \A h \in 1..(Len(segments) + 1) :
           h \notin SegmentIds(segments) => SegmentIndex(segments, h) = -1

\* the selected segment is the second of two twins, and its row is the current one
C14_Witness ==
    /\ Len(segments) = 2
    /\ Twins(segments) = {1, 2}
    /\ selected_segment = segments[2].id
    /\ current_row = 1

(***************************************************************************)
(* _parse_ffmpeg_progress (ui/editor.py)                                   *)
(***************************************************************************)
ProgressKey == <<"o", "u", "t", "_", "t", "i", "m", "e", "_", "m", "s", "=">>

\* leading zeros dropped: the decimal digits of a natural number, <<>> for 0
RECURSIVE StripZeros(_)
StripZeros(digits) ==
    IF digits # <<>> /\ Head(digits) = "0" THEN StripZeros(Tail(digits)) ELSE digits

\* int(s): [ok, neg, digits]; ok = FALSE is the ValueError. Whitespace around, one
\* sign, digits with single underscores between them, at most 4300 digits
\* (sys.int_info.default_max_str_digits)
PyInt(s) ==
    LET t == Strip(s)
        signed == t # <<>> /\ t[1] \in {"+", "-"}
        body == IF signed THEN Tail(t) ELSE t
        wellFormed ==
            /\ body # <<>>
            /\ \A i \in 1..Len(body) : IsDigit(body[i]) \/ body[i] = "_"
            /\ IsDigit(body[1]) /\ IsDigit(body[Len(body)])
            /\ \A i \in 1..(Len(body) - 1) : ~(body[i] = "_" /\ body[i + 1] = "_")
        digits == SelectSeq(body, IsDigit)
    IN  IF wellFormed /\ Len(digits) <= 4300
        THEN [ok |-> TRUE, neg |-> signed /\ t[1] = "-", digits |-> StripZeros(digits)]
        ELSE [ok |-> FALSE, neg |-> FALSE, digits |-> <<>>]

ZeroInt == [ok |-> TRUE, neg |-> FALSE, digits |-> <<>>]

\* the for loop over the lines: out_time_ms after it
RECURSIVE LastOutTime(_, _)
LastOutTime(lines, out_time_ms) ==
    IF lines = <<>> THEN out_time_ms
    ELSE LET line == Head(lines)
             parsed == PyInt(SubSeq(line, Len(ProgressKey) + 1, Len(line)))
         IN  IF OccursAt(line, ProgressKey, 1) /\ parsed.ok
             THEN LastOutTime(Tail(lines), parsed)
             ELSE LastOutTime(Tail(lines), out_time_ms)

\* a < b for the digits of two natural numbers without leading zeros
DigitsLess(a, b) ==
    \/ Len(a) < Len(b)
    \/ /\ Len(a) = Len(b)
       /\ \E k \in 1..Len(a) :
              /\ \A j \in 1..(k - 1) : a[j] = b[j]
              /\ DigitValue(a[k]) < DigitValue(b[k])

\* the first 17 digits of the least 315-digit integer whose quotient by 1_000_000
\* is beyond the largest float (1.7976931348623157e308, and half a step more)
FloatLimitLead == <<"1", "7", "9", "7", "6", "9", "3", "1", "3", "4", "8", "6", "2", "3", "1", "5", "8">>

\* out_time_ms / 1_000_000 raises OverflowError ("integer division result too large
\* for a float"): the quotient has more than 309 digits, or 309 and leads the limit
TrueDivOverflows(digits) ==
    \/ Len(digits) > 315
    \/ Len(digits) = 315 /\ ~DigitsLess(SubSeq(digits, 1, 17), FloatLimitLead)

\* the duration in ms: max end, or max(0.1, media_player.duration() / 1000)
ProgressDuration(segs, player_ms) ==
    LET duration == IF segs = <<>> THEN 0 ELSE MaxOf({segs[i].end : i \in 1..Len(segs)})
    IN  IF duration <= 0 THEN Max(100, player_ms) ELSE duration

\* a percentage as the fraction num/den of 100
Pct(num, den) == [raised |-> FALSE, num |-> num, den |-> den]

\* max(0.0, min(100.0, (out_time_ms / 1_000_000) / duration * 100)), for a duration
\* below 10^6 ms, which 10^9 microseconds and more exceed
ClampedPercent(out_time_ms, duration_ms) ==
    IF TrueDivOverflows(out_time_ms.digits) THEN [raised |-> TRUE, num |-> 0, den |-> 1]
    ELSE IF out_time_ms.neg \/ out_time_ms.digits = <<>> THEN Pct(0, 1)
    ELSE IF Len(out_time_ms.digits) > 9 THEN Pct(1, 1)
    ELSE LET us == StrToInt(out_time_ms.digits)
             duration_us == 1000 * duration_ms
         IN  IF us >= duration_us THEN Pct(1, 1) ELSE Pct(us, duration_us)

\* _parse_ffmpeg_progress: [raised, num, den]; raised = TRUE is the OverflowError
ParseFfmpegProgress(progress_file, segs, player_ms) ==
    IF ~progress_file.exists THEN Pct(0, 1)
    ELSE ClampedPercent(LastOutTime(SplitLines(progress_file.text), ZeroInt),
                        ProgressDuration(segs, player_ms))

(***************************************************************************)
(* SpecProgress: one call of _parse_ffmpeg_progress                        *)
(***************************************************************************)
MaxProgressLines == 2
BigExponent == 400

Zeros(n) == [i \in 1..n |-> "0"]

\* lines of the progress file: valid values, malformed ones, another key, and
\* a value of 10^BigExponent
ProgressLines ==
    { ProgressKey \o <<"5", "0", "0", "0", "0", "0">>,
      ProgressKey \o <<"+", "1", "_", "5", "0", "0", "_", "0", "0", "0">>,
      ProgressKey \o <<"N", "/", "A">>,
      ProgressKey \o <<"-", "5">>,
      ProgressKey \o <<" ", "2", "5", "0", "0", "0", "0", "0">>,
      ProgressKey \o <<"1">> \o Zeros(BigExponent),
      <<"f", "r", "a", "m", "e", "=", "1">> }

ProgressSegments ==
    { <<>>,
      <<Seg(0, 0, <<"a">>)>>,
      <<Seg(0, 1000, <<"a">>)>>,
      <<Seg(0, 2000, <<"a">>), Seg(500, 1000, <<"a">>)>> }

\* media_player.duration(), ms
PlayerDurations == {0, 4000}

ProgressFiles ==
    {[exists |-> FALSE, text |-> <<>>]}
        \cup {[exists |-> TRUE, text |-> Join(<<"\n">>, ls)] :
                  ls \in SeqsUpTo(ProgressLines, MaxProgressLines)}

ProgressInit ==
    /\ fn_in \in [progress_file : ProgressFiles, segments : ProgressSegments,
                  duration : PlayerDurations]
    /\ fn_out = <<>>
    /\ fn_pc = "start"
    /\ EditorIdle /\ SyncIdle /\ CodecIdle /\ ExportIdle

ParseProgress ==
    /\ fn_pc = "start"
    /\ fn_out' = <<ParseFfmpegProgress(fn_in.progress_file, fn_in.segments, fn_in.duration)>>
    /\ fn_pc' = "called"
    /\ UNCHANGED <<fn_in, editorVars, syncVars, codecVars, exportVars>>

ProgressNext == ParseProgress

SpecProgress == ProgressInit /\ [][ProgressNext]_vars

\* the lines 'out_time_ms=<integer>' whose value parses
ValidLines(lines) ==
    {i \in 1..Len(lines) :
        /\ OccursAt(lines[i], ProgressKey, 1)
        /\ PyInt(SubSeq(lines[i], Len(ProgressKey) + 1, Len(lines[i]))).ok}

\* C15: the export percentage is 0 when the progress file is missing; otherwise it
\* comes from the last line out_time_ms=<integer> whose value parses (a malformed
\* value is skipped and does not reset an earlier one), read as microseconds and
\* divided by the greatest end of the segments; it is within [0, 100] for any file
\* content and any segment collection.
C15_ProgressPercentage ==
    fn_pc = "called" =>
        LET out == fn_out[1]
            lines == SplitLines(fn_in.progress_file.text)
            valid == ValidLines(lines)
            line == lines[MaxOf(valid)]
            value == PyInt(SubSeq(line, Len(ProgressKey) + 1, Len(line)))
            ends == {fn_in.segments[i].end : i \in 1..Len(fn_in.segments)}
        IN  /\ ~out.raised
            /\ 0 <= out.num /\ out.num <= out.den /\ out.den > 0
            /\ ~fn_in.progress_file.exists => out.num = 0
            /\ (fn_in.progress_file.exists /\ valid = {}) => out.num = 0
            /\ (fn_in.progress_file.exists /\ valid # {} /\ value.neg) => out.num = 0
            /\ ( /\ fn_in.progress_file.exists /\ valid # {} /\ ~value.neg
                 /\ ends # {} /\ MaxOf(ends) > 0 ) =>
                   IF Len(value.digits) <= 9 /\ StrToInt(value.digits) < 1000 * MaxOf(ends)
                   THEN /\ out.num = StrToInt(value.digits)
                        /\ out.den = 1000 * MaxOf(ends)
                   ELSE out.num = out.den

(***************************************************************************)
(* ass_writer.py: _escape_ass_text                                         *)
(***************************************************************************)
\* str.replace(old, new) for a one-character old
RECURSIVE Replace(_, _, _)
Replace(s, old, new) ==
    IF s = <<>> THEN <<>>
    ELSE IF Head(s) = old THEN new \o Replace(Tail(s), old, new)
    ELSE <<Head(s)>> \o Replace(Tail(s), old, new)

\* a faulty variant of _escape_ass_text: the braces first, the backslash last
EscapeBracesFirst(text) ==
    Replace(Replace(Replace(text, "{", <<"\\", "{">>), "}", <<"\\", "}">>),
            "\\", <<"\\", "\\">>)

\* _escape_ass_text
EscapeAssText(text) ==
    Replace(Replace(Replace(text, "\\", <<"\\", "\\">>), "{", <<"\\", "{">>),
            "}", <<"\\", "}">>)

(***************************************************************************)
(* SpecEscape: a text is escaped, and the result is read back              *)
(***************************************************************************)
MaxEscapeLen == 5

EscapeChars == {"\\", "{", "}", "a"}

\* reading left to right: a backslash and the character after it stand for that
\* character
RECURSIVE Unescape(_)
Unescape(s) ==
    IF s = <<>> THEN <<>>
    ELSE IF Head(s) = "\\" /\ Len(s) >= 2 THEN <<s[2]>> \o Unescape(SubSeq(s, 3, Len(s)))
    ELSE <<Head(s)>> \o Unescape(Tail(s))

EscapeInit ==
    /\ fn_in \in SeqsUpTo(EscapeChars, MaxEscapeLen)
    /\ fn_out = <<>>
    /\ fn_pc = "start"
    /\ EditorIdle /\ SyncIdle /\ CodecIdle /\ ExportIdle

EscapeCall ==
    /\ fn_pc = "start"
    /\ fn_out' = <<EscapeAssText(fn_in)>>
    /\ fn_pc' = "called"
    /\ UNCHANGED <<fn_in, editorVars, syncVars, codecVars, exportVars>>

ReadBack ==
    /\ fn_pc = "called"
    /\ fn_out' = Append(fn_out, Unescape(fn_out[1]))
    /\ fn_pc' = "again"
    /\ UNCHANGED <<fn_in, editorVars, syncVars, codecVars, exportVars>>

EscapeNext == EscapeCall \/ ReadBack

SpecEscape == EscapeInit /\ [][EscapeNext]_vars

\* what the escaping is to give for one character
EscapedChar(c) == IF c \in {"\\", "{", "}"} THEN <<"\\", c>> ELSE <<c>>

RECURSIVE EscapedChars(_)
EscapedChars(s) ==
    IF s = <<>> THEN <<>> ELSE EscapedChar(Head(s)) \o EscapedChars(Tail(s))

\* C16: the escaping turns every backslash into two, every { into \{ and every }
\* into \}, and nothing that a replacement put in is escaped again; so reading the
\* output left to right and undoing each two-character escape gives the original
\* text back, for every string of backslashes, braces and other characters.
C16_EscapeInjective ==
    /\ fn_pc \in {"called", "again"} => fn_out[1] = EscapedChars(fn_in)
    /\ fn_pc = "again" => fn_out[2] = fn_in

\* a text with a backslash before a brace, and one after, has been escaped and read back
C16_Witness ==
    /\ fn_pc = "again"
    /\ \E i \in 1..(Len(fn_in) - 2) :
           fn_in[i] = "\\" /\ fn_in[i + 1] = "{" /\ fn_in[i + 2] = "\\"
    /\ \E i \in 1..Len(fn_in) : fn_in[i] = "}"
    /\ Len(fn_out[1]) > Len(fn_in)

(***************************************************************************)
(* C17: the handles after a load or a delete                               *)
(***************************************************************************)
\* no handle, or the handle of a segment of the collection
NoneOrMember(handle) == handle = None \/ handle \in SegmentIds(segments)

\* C17: after the collection is replaced (open SRT, open video, generated captions)
\* or a segment is deleted, neither the selected handle nor the active (playback)
\* handle refers to a segment that is absent from the collection: in every reachable
\* state each is none or a member of the current collection.
C17_HandlesInCollection ==
    /\ NoneOrMember(selected_segment)
    /\ NoneOrMember(active_segment)

(***************************************************************************)
(* SpecDelete: a window with several captions; the user picks rows,        *)
(* deletes, and the player moves                                           *)
(***************************************************************************)
MaxDeleteSegs == 4

\* the i-th caption of the file: one second long, end to end with the next
DeleteSeg(i) == Seg(1000 * (i - 1), 1000 * i, <<DigitChars[i + 1]>>)

DeleteLists == {[i \in 1..n |-> DeleteSeg(i)] : n \in {0, MaxDeleteSegs}}

DeleteInit ==
    /\ \E parsed \in DeleteLists : IsState(Constructed(parsed))
    /\ SyncIdle /\ CodecIdle /\ FnIdle /\ ExportIdle

DeleteNext == DismissDialog \/ PositionChanged \/ CaptionRowChanged \/ DeleteCaption

SpecDelete == DeleteInit /\ [][DeleteNext]_vars

\* C18: Delete removes exactly the selected segment and leaves every other segment
\* and their order as they were; it changes nothing when there is no selection or
\* when the handle is not in the collection. Afterwards the selection is the segment
\* now at the deleted segment's rank, or the new last segment if the deleted one was
\* last, or none if the collection became empty.
C18_DeletePolicy ==
    Idle =>
        LET post == DeleteSelectedCaption(EditorState)
            stale == [EditorState EXCEPT !.selected_segment = Stale]
            rank == SegmentIndex(segments, selected_segment) + 1
        IN  /\ selected_segment = None =>
                   post.segments = segments /\ post.selected_segment = None
            /\ DeleteSelectedCaption(stale) = stale
            /\ selected_segment \in SegmentIds(segments) =>
                   /\ Len(post.segments) = Len(segments) - 1
                   /\ \A i \in 1..Len(post.segments) :
                          post.segments[i] = segments[IF i < rank THEN i ELSE i + 1]
                   /\ post.selected_segment =
                          IF post.segments = <<>> THEN None
                          ELSE IF rank < Len(segments) THEN segments[rank + 1].id
                          ELSE segments[rank - 1].id

\* the third of the captions has been deleted, the fourth is selected in its place
\* at row 2, and the two before it are as they were
C18_Witness ==
    /\ Idle
    /\ Len(segments) = MaxDeleteSegs - 1
    /\ segments[1].id = 1 /\ segments[2].id = 2 /\ segments[3].id = 4
    /\ selected_segment = 4
    /\ current_row = 2
    /\ position = 0

(***************************************************************************)
(* C19: the active and the selected segment                                *)
(***************************************************************************)
\* the block of the segment is drawn in the active colours
Highlighted(id) == highlighted = id

\* C19: active (playback) and selected (user pick) are independent: a position
\* change never changes the selected segment, and a selection never changes the
\* active one; when the active and the selected segment are different segments both
\* are highlighted on the timeline, and where one highlight only can apply it is
\* the selected segment's.
C19_ActiveAndSelectedIndependent ==
    Idle =>
        /\ \A ms \in Positions :
               OnMediaPositionChanged(EditorState, ms).selected_segment = selected_segment
        /\ \A row \in 0..(Len(rows) - 1), moved \in BOOLEAN :
               OnCaptionRowChanged(EditorState, row, moved).active_segment = active_segment
        /\ ( /\ selected_segment \in SegmentIds(segments)
             /\ active_segment \in SegmentIds(segments) ) =>
               Highlighted(selected_segment)

(***************************************************************************)
(* C20: the window of the search                                           *)
(***************************************************************************)
\* the indices from the cursor on, six at most, that are indices of lines
LookaheadOf(cursor) ==
    {i \in 0..(Len(sync_in.lyrics_lines) - 1) : cursor <= i /\ i < cursor + 6}

\* the index of the strictly highest score among those of the set, the lowest
\* index among equal scores
HighestIn(seg, indices) ==
    CHOOSE i \in indices :
        \A j \in indices \ {i} :
            \/ ~AtLeast(ScoreOf(seg, j), ScoreOf(seg, i))
            \/ AtLeast(ScoreOf(seg, i), ScoreOf(seg, j)) /\ i < j

\* what the loop over the window leaves in best_idx for a logged segment
BestIdxOf(entry) ==
    SearchBest(Normalize(sync_in.segments[entry.seg + 1].text), sync_in.lyrics_lines,
               entry.before, SearchEnd(sync_in.lyrics_lines, entry.before),
               [best_idx |-> entry.before, best_score |-> <<-1, 1>>]).best_idx

\* C20: for each consumed segment only the lines with index in
\* [lyric_idx, min(lyric_idx + 6, number of lines)) are scored, and the line taken
\* as best is the one with the strictly highest score of that window, the lowest
\* index among equal scores; so the index assigned to a segment is never below the
\* cursor and never more than 5 above it.
C20_SearchWindow ==
    \A i \in 1..Len(sync_log) :
        LET e == sync_log[i]
        IN  /\ BestIdxOf(e) = HighestIn(e.seg, LookaheadOf(e.before))
            /\ e.chosen \in {e.before, BestIdxOf(e)}
            /\ e.before <= e.chosen /\ e.chosen <= e.before + 5

\* a segment was given the last line of its window, five above the cursor, although
\* the line after the window scores as high; and the lines before tie at a lower score
C20_Witness ==
    \E i \in 1..Len(sync_log) :
        LET e == sync_log[i]
        IN  /\ e.chosen = e.before + 5
            /\ e.before + 6 < Len(sync_in.lyrics_lines)
            /\ AtLeast(ScoreOf(e.seg, e.before + 6), ScoreOf(e.seg, e.chosen))
            /\ AtLeast(ScoreOf(e.seg, e.before), ScoreOf(e.seg, e.before + 1))

(***************************************************************************)
(* C21: which blocks give a segment                                        *)
(***************************************************************************)
\* the lines of the block from the third on, joined with single spaces
JoinedText(block) == Strip(Join(<<" ">>, SubSeq(block.lines, 3, Len(block.lines))))

\* at least 2 lines, "-->" on the second, and a text that is not empty
Qualifies(block) ==
    /\ Len(block.lines) >= 2
    /\ Contains(block.lines[2], Arrow)
    /\ JoinedText(block) # <<>>

\* the qualifying blocks of the file, in file order
QualifyingBlocks == SelectSeq(codec_in, Qualifies)

MaxHours == 100

\* seconds * 1000 = ms + tenths/10: whole milliseconds around the carries of the
\* fields, and every tenth
TimeMillis ==
    {0, 1, 62, 187, 999, 59999, 3599999, 3661062, 3661200, 3600000 * MaxHours - 1,
     3600000 * MaxHours}

TimeTenths == 0..9

TimeInit ==
    /\ fn_in \in [ms : TimeMillis, tenths : TimeTenths]
    /\ fn_out = <<>>
    /\ fn_pc = "start"
    /\ EditorIdle /\ SyncIdle /\ CodecIdle /\ ExportIdle

FormatTimestamp ==
    /\ fn_pc = "start"
    /\ fn_out' = <<ToSrtTime(fn_in.ms, fn_in.tenths)>>
    /\ fn_pc' = "called"
    /\ UNCHANGED <<fn_in, editorVars, syncVars, codecVars, exportVars>>

\* _to_seconds of the string the encoder produced
DecodeTimestamp ==
    /\ fn_pc = "called"
    /\ fn_out' = Append(fn_out, ToSeconds(fn_out[1]))
    /\ fn_pc' = "decoded"
    /\ UNCHANGED <<fn_in, editorVars, syncVars, codecVars, exportVars>>

TimeNext == FormatTimestamp \/ DecodeTimestamp

SpecTime == TimeInit /\ [][TimeNext]_vars

\* t has the form H..H:MM:SS,mmm with two hour digits or more
HasTimeForm(t) ==
    /\ Len(t) >= 12
    /\ t[Len(t) - 3] = "," /\ t[Len(t) - 6] = ":" /\ t[Len(t) - 9] = ":"
    /\ \A i \in 1..Len(t) : i \notin {Len(t) - 3, Len(t) - 6, Len(t) - 9} => IsDigit(t[i])

\* the four numbers of a string of that form
FieldsOf(t) ==
    [h |-> StrToInt(SubSeq(t, 1, Len(t) - 10)),
     m |-> StrToInt(SubSeq(t, Len(t) - 8, Len(t) - 7)),
     s |-> StrToInt(SubSeq(t, Len(t) - 5, Len(t) - 4)),
     ms |-> StrToInt(SubSeq(t, Len(t) - 2, Len(t)))]

\* to the nearest integer, a half upwards
RoundHalfUp(whole, tenths) == IF tenths >= 5 THEN whole + 1 ELSE whole

\* the string is the rendering of the count of milliseconds
Renders(t, count) ==
    /\ HasTimeForm(t)
    /\ LET f == FieldsOf(t)
       IN  /\ f.m \in 0..59 /\ f.s \in 0..59 /\ f.ms \in 0..999
           /\ f.h * 3600000 + f.m * 60000 + f.s * 1000 + f.ms = count

\* C22: for every time >= 0 on a grid of tenths of a millisecond, _to_srt_time
\* renders seconds * 1000 rounded to the nearest integer, halves upwards, as
\* HH:MM:SS,mmm with minutes and seconds in 0..59, milliseconds in 0..999 and the
\* fields adding up to that count; _to_srt_time(0) is "00:00:00,000".
C22_RoundHalfUp ==
    fn_pc = "called" =>
        /\ Renders(fn_out[1], RoundHalfUp(fn_in.ms, fn_in.tenths))
        /\ (fn_in.ms = 0 /\ fn_in.tenths = 0) =>
               fn_out[1] = <<"0", "0", ":", "0", "0", ":", "0", "0", ",", "0", "0", "0">>

(***************************************************************************)
(* C23: the characters of a normalized text                                *)
(***************************************************************************)
\* no space first or last, and no two spaces in a row
SingleSpaced(s) ==
    /\ s # <<>> => s[1] # " " /\ s[Len(s)] # " "
    /\ \A i \in 1..(Len(s) - 1) : ~(s[i] = " " /\ s[i + 1] = " ")

\* C23: the normalized text holds only lower case letters, digits and single
\* spaces: every character that is not a letter, a digit or whitespace, the
\* underscore included, has become a space, runs of whitespace are one space, and
\* there is no space at either end.
C23_NormalizedAlphabet ==
    fn_pc \in {"called", "again"} =>
        /\ \A i \in 1..Len(fn_out[1]) : fn_out[1][i] \in LowerCase \cup DigitSet \cup {" "}
        /\ SingleSpaced(fn_out[1])

(***************************************************************************)
(* SpecExport: export_captioned_video from Popen on, beside the ffmpeg     *)
(* process and the user                                                    *)
(***************************************************************************)
\* how much the pipes of the child hold before a write blocks, and how much a child
\* writes at most, in the same unit
PipeCapacity == 2
MaxChildOutput == 3

ReturnCodes == {0, 1}

ExportInit ==
    /\ export_pc = "start" /\ child = NoChild /\ clicked = "no" /\ canceled = FALSE
    /\ output_file = "none" /\ report = ""
    /\ EditorIdle /\ SyncIdle /\ CodecIdle /\ FnIdle

\* subprocess.Popen(command, stdout=PIPE, stderr=PIPE): the child starts with some
\* amount of text to write to its pipes
Popen ==
    /\ export_pc = "start"
    /\ \E amount \in 0..MaxChildOutput :
           child' = [state |-> "running", pending |-> amount, pipe |-> 0, returncode |-> 0]
    /\ export_pc' = "poll"
    /\ UNCHANGED <<clicked, canceled, output_file, report, editorVars, syncVars, codecVars, fnVars>>

\* while process.poll() is None
Poll ==
    /\ export_pc = "poll"
    /\ export_pc' = IF child.state = "running" THEN "events" ELSE "communicate"
    /\ UNCHANGED <<child, clicked, canceled, output_file, report, editorVars, syncVars, codecVars, fnVars>>

\* process.terminate()
Terminate(c) == IF c.state = "running" THEN [c EXCEPT !.state = "terminated"] ELSE c

\* QApplication.processEvents(), which delivers a click on Cancel, and the test of
\* progress.wasCanceled()
ProcessEvents ==
    /\ export_pc = "events"
    /\ canceled' = (canceled \/ clicked # "no")
    /\ IF canceled'
       THEN /\ child' = Terminate(child)
            /\ report' = "Export Cancelled"
            /\ export_pc' = "done"
       ELSE /\ export_pc' = "progress"
            /\ UNCHANGED <<child, report>>
    /\ UNCHANGED <<clicked, output_file, editorVars, syncVars, codecVars, fnVars>>

\* progress.setValue(percent): a modal QProgressDialog processes the events
SetProgress ==
    /\ export_pc = "progress"
    /\ canceled' = (canceled \/ clicked # "no")
    /\ export_pc' = "poll"
    /\ UNCHANGED <<child, clicked, output_file, report, editorVars, syncVars, codecVars, fnVars>>

\* process.communicate() reads the pipes to their end; then the message box
Communicate ==
    /\ export_pc = "communicate"
    /\ child' = [child EXCEPT !.pipe = 0]
    /\ report' = IF child.returncode # 0 THEN "Export Failed" ELSE "Export Complete"
    /\ export_pc' = "done"
    /\ UNCHANGED <<clicked, canceled, output_file, editorVars, syncVars, codecVars, fnVars>>

\* the child creates the output file
ChildOpensOutput ==
    /\ child.state = "running" /\ output_file = "none"
    /\ output_file' = "partial"
    /\ UNCHANGED <<export_pc, child, clicked, canceled, report, editorVars, syncVars, codecVars, fnVars>>

\* the child writes to stdout or stderr; the write blocks while the pipe is full
ChildWrites ==
    /\ child.state = "running" /\ child.pending > 0 /\ child.pipe < PipeCapacity
    /\ child' = [child EXCEPT !.pending = @ - 1, !.pipe = @ + 1]
    /\ UNCHANGED <<export_pc, clicked, canceled, output_file, report, editorVars, syncVars, codecVars, fnVars>>

\* the child has written all it had to and exits; with return code 0 the output
\* file is complete
ChildExits ==
    /\ child.state = "running" /\ child.pending = 0 /\ output_file # "none"
    /\ \E code \in ReturnCodes :
           /\ child' = [child EXCEPT !.state = "exited", !.returncode = code]
           /\ output_file' = IF code = 0 THEN "complete" ELSE "partial"
    /\ UNCHANGED <<export_pc, clicked, canceled, report, editorVars, syncVars, codecVars, fnVars>>

\* the user clicks Cancel on the progress dialog, once
ClickCancel ==
    /\ export_pc \in {"poll", "events", "progress"} /\ clicked = "no"
    /\ clicked' = child.state
    /\ UNCHANGED <<export_pc, child, canceled, output_file, report, editorVars, syncVars, codecVars, fnVars>>

EditorLoop == Popen \/ Poll \/ ProcessEvents \/ SetProgress \/ Communicate

ChildRuns == ChildOpensOutput \/ ChildWrites \/ ChildExits

ExportNext == EditorLoop \/ ChildRuns \/ ClickCancel

\* the handler runs on, and so does the child whenever it is not blocked
SpecExport == ExportInit /\ [][ExportNext]_vars /\ WF_vars(EditorLoop) /\ WF_vars(ChildRuns)

\* C24: if cancellation is requested while the child is running, the export loop
\* terminates the child and ends without ever reporting "Export Complete", and no
\* output file of the cancelled export remains.
C24_CancelDiscardsOutput ==
    clicked = "running" =>
        /\ report # "Export Complete"
        /\ export_pc = "done" => child.state = "terminated" /\ output_file = "none"

\* C29: the polling loop always ends: for a child that writes any amount of data to
\* its stdout and stderr pipes and then exits, and with no cancel request, the
\* editor eventually sees the exit and reports completion or failure; the child is
\* never blocked for ever on a full pipe while the editor polls without reading.
C29_ExportLoopEnds ==
    <>(clicked # "no" \/ report \in {"Export Complete", "Export Failed"})

(***************************************************************************)
(* C25: the texts after a lyric sync in the editor                         *)
(***************************************************************************)
\* the text the segment at 0-based position p is to carry after a sync that gave
\* the triples out: that of its triple if it is one of the first Len(out) segments
\* with a non-empty normalized text, its own otherwise
TextAfterSync(segs, out, p) ==
    LET kept == NonEmptyPositions(segs)
        ranks == {k \in 1..Len(out) : k <= Len(kept) /\ kept[k] = p}
    IN  IF ranks = {} THEN segs[p + 1].text ELSE out[MinOf(ranks)].text

\* C25: after a successful lyric sync every segment the aligner consumed carries
\* the reference line matched to that segment, every segment it skipped (empty
\* normalized text) or dropped (reference list exhausted) keeps its text, no start
\* or end changes, and the number of segments is unchanged.
C25_SyncedTextsOnTheirSegments ==
    (Idle /\ segments # <<>>) =>
        \A raw_lyrics \in LyricsInputs, similarity \in Similarities :
            LET after == SyncLyricsToSegments(EditorState, raw_lyrics, similarity)
                out == SyncSegmentsToLyrics(segments, ParseLyricsLines(raw_lyrics), similarity)
            IN  after.dialog = "Lyrics Synced" =>
                    /\ Len(after.segments) = Len(segments)
                    /\ \A i \in 1..Len(segments) :
                           /\ after.segments[i].start = segments[i].start
                           /\ after.segments[i].end = segments[i].end
                           /\ after.segments[i].text = TextAfterSync(segments, out, i - 1)

(***************************************************************************)
(* C26: the rows of the caption list                                       *)
(***************************************************************************)
\* C26: in every reachable state the caption list has one row per segment and row
\* i shows segment i of the collection, so that choosing row i selects the segment
\* shown in that row; after any interleaving of drags, apply-edit, add, delete,
\* save, lyric sync and export.
C26_RowsShowSegments ==
    /\ Len(rows) = Len(segments)
    /\ \A i \in 1..Len(segments) : rows[i] = CaptionListText(segments[i])

(***************************************************************************)
(* C27, C28: what a gesture leaves unchanged (SpecDrag)                    *)
(***************************************************************************)
\* the step is one of a gesture in the given mode: its press, a move, or its release
GestureStep(mode) == drag.drag_mode = mode \/ drag'.drag_mode = mode

\* the segment the gesture of the step is on
GestureId == IF drag # NoDrag THEN drag.id ELSE drag'.id

\* C27: a resize-left drag changes the start only and leaves the end as it was, and
\* a resize-right drag changes the end only and leaves the start as it was, for
\* every delta, also for a left drag that would take the start below time 0.
C27_ResizeMovesOneEdge ==
    [][/\ GestureStep("left") =>
              SegmentOf(segments', GestureId).end = SegmentOf(segments, GestureId).end
       /\ GestureStep("right") =>
              SegmentOf(segments', GestureId).start = SegmentOf(segments, GestureId).start]_vars

\* C28: a press and a release on a block with no move between them, and a move drag
\* by any delta, leave the duration end - start of the segment as it was; the press
\* and the release leave both start and end as they were. For every segment that
\* can be in the collection, also those shorter than MIN_WIDTH / pixels_per_second.
C28_ClickAndMoveKeepDuration ==
    [][/\ GestureStep("move") =>
              DurationOf(segments', GestureId) = DurationOf(segments, GestureId)
       /\ (drag = NoDrag \/ drag' = NoDrag) =>
              /\ SegmentOf(segments', GestureId).start = SegmentOf(segments, GestureId).start
              /\ SegmentOf(segments', GestureId).end = SegmentOf(segments, GestureId).end]_vars

(***************************************************************************)
(* C30: the decoder reads what the encoder writes                          *)
(***************************************************************************)

\* C30: for every time >= 0, also of 100 hours and more, _to_seconds accepts the
\* string _to_srt_time produced and returns the millisecond count it encoded
C30_DecoderReadsEncoder ==
    fn_pc = "decoded" =>
        /\ fn_out[2].ok
        /\ fn_out[2].ms = RoundHalfEven(fn_in.ms, fn_in.tenths)

====
